---------------------------- MODULE Spec2Model ----------------------------
(***************************************************************************)
(* Resume Roaster: the rule-based analysis core (server/lib analyzer,      *)
(* roaster, improver) modelled on character strings.                       *)
(*                                                                         *)
(* Texts are TLA+ strings over printable ASCII plus \n, \t and \r.  The    *)
(* regular expressions of the source are written out as scanning           *)
(* operators, one per expression, with the source's own names kept for     *)
(* the functions that use them.                                            *)
(***************************************************************************)
EXTENDS Integers, Sequences, FiniteSets, TLC

(***************************************************************************)
(* Characters and the String primitives of JavaScript that the code uses.  *)
(***************************************************************************)
DigitChars == {"0", "1", "2", "3", "4", "5", "6", "7", "8", "9"}

UpperSeq == "ABCDEFGHIJKLMNOPQRSTUVWXYZ"

LowerSeq == "abcdefghijklmnopqrstuvwxyz"

UpperChars == {SubSeq(UpperSeq, i, i) : i \in 1..26}

LowerChars == {SubSeq(LowerSeq, i, i) : i \in 1..26}

\* \w of a JavaScript regular expression
WordChars == DigitChars \cup UpperChars \cup LowerChars \cup {"_"}

\* \s of a JavaScript regular expression, within the model's alphabet
SpaceChars == {" ", "\t", "\n", "\r", "\f"}

\* s.charAt(i - 1): the empty string outside the string
Ch(s, i) == IF i >= 1 /\ i <= Len(s) THEN SubSeq(s, i, i) ELSE ""

\* s.substring(i - 1)
From(s, i) == SubSeq(s, i, Len(s))

\* whether w occurs in s starting at position i
StartsAt(s, i, w) == i >= 1 /\ i + Len(w) - 1 <= Len(s) /\ SubSeq(s, i, i + Len(w) - 1) = w

\* String.prototype.includes
Includes(s, w) == \E i \in 1..(Len(s) - Len(w) + 1) : SubSeq(s, i, i + Len(w) - 1) = w

LowerChar(c) ==
    IF c \in UpperChars
    THEN LET k == CHOOSE i \in 1..26 : SubSeq(UpperSeq, i, i) = c IN SubSeq(LowerSeq, k, k)
    ELSE c

\* F(v), with v evaluated once, before F is
WithValue(v, F(_)) == CHOOSE r \in {F(x) : x \in {v}} : TRUE

RECURSIVE toLowerCase(_)
\* String.prototype.toLowerCase, character by character (the string is halved to keep
\* the evaluation shallow)
toLowerCase(s) ==
    IF Len(s) = 0 THEN ""
    ELSE IF Len(s) = 1 THEN LowerChar(s)
    ELSE LET h == Len(s) \div 2
         IN  toLowerCase(SubSeq(s, 1, h)) \o toLowerCase(SubSeq(s, h + 1, Len(s)))

RECURSIVE ConcatRange(_, _, _)
\* pieces[lo] \o ... \o pieces[hi]
ConcatRange(pieces, lo, hi) ==
    IF lo > hi THEN ""
    ELSE IF lo = hi THEN pieces[lo]
    ELSE LET mid == (lo + hi) \div 2
         IN  ConcatRange(pieces, lo, mid) \o ConcatRange(pieces, mid + 1, hi)

\* the first position >= i of s whose character is not in class (Len(s) + 1 if none):
\* where a greedy [class]* that starts at i ends
SkipClass(s, i, class) ==
    IF i < 1 \/ i > Len(s) THEN i
    ELSE CHOOSE j \in i..(Len(s) + 1) :
            /\ j = Len(s) + 1 \/ SubSeq(s, j, j) \notin class
            /\ \A k \in i..(j - 1) : SubSeq(s, k, k) \in class

\* the first position >= i of s whose character is in class (Len(s) + 1 if none):
\* where a greedy [^class]* that starts at i ends
SkipUntil(s, i, class) ==
    IF i < 1 \/ i > Len(s) THEN i
    ELSE CHOOSE j \in i..(Len(s) + 1) :
            /\ j = Len(s) + 1 \/ SubSeq(s, j, j) \in class
            /\ \A k \in i..(j - 1) : SubSeq(s, k, k) \notin class

\* where \s* that starts at i ends
SkipSpaces(s, i) == SkipClass(s, i, SpaceChars)

\* the last position <= i of s that holds no whitespace (0 if none)
SkipSpacesBack(s, i) ==
    IF i < 1 THEN 0
    ELSE CHOOSE j \in 0..i :
            /\ j = 0 \/ SubSeq(s, j, j) \notin SpaceChars
            /\ \A k \in (j + 1)..i : SubSeq(s, k, k) \in SpaceChars

\* String.prototype.trim
trim(s) == SubSeq(s, SkipSpaces(s, 1), SkipSpacesBack(s, Len(s)))

\* the first position of s that holds character c (0 if none)
FindChar(s, c) ==
    LET j == SkipUntil(s, 1, {c}) IN IF j > Len(s) THEN 0 ELSE j

RECURSIVE splitLines(_)
\* text.split("\n")
splitLines(s) ==
    LET i == FindChar(s, "\n")
    IN  IF i = 0 THEN <<s>> ELSE <<SubSeq(s, 1, i - 1)>> \o splitLines(From(s, i + 1))

\* text.split(/\s+/).filter((w) => w.length > 0).length: the number of maximal runs of
\* characters that are not whitespace
CountWords(s) ==
    Cardinality({i \in 1..Len(s) : Ch(s, i) \notin SpaceChars /\ (i = 1 \/ Ch(s, i - 1) \in SpaceChars)})

\* lines.join("\n")
joinLines(ls) ==
    ConcatRange([k \in 1..Len(ls) |-> IF k = 1 THEN ls[k] ELSE "\n" \o ls[k]], 1, Len(ls))

\* \b of a regular expression, between positions i - 1 and i of s
WordBoundary(s, i) == (Ch(s, i - 1) \in WordChars) # (Ch(s, i) \in WordChars)

\* new RegExp("\\b" + w + "\\b").test(s), w a literal
TestWord(s, w) ==
    \E i \in 1..(Len(s) - Len(w) + 1) :
        /\ SubSeq(s, i, i + Len(w) - 1) = w
        /\ WordBoundary(s, i)
        /\ WordBoundary(s, i + Len(w))

\* /\b(w1|w2|...)\b/.test(s), ws the alternatives
TestAnyWord(s, ws) == \E k \in 1..Len(ws) : TestWord(s, ws[k])

\* ws.filter((w) => s.includes(w))
FilterIncluded(ws, s) == SelectSeq(ws, LAMBDA w : Includes(s, w))

\* ws.filter((w) => new RegExp("\\b" + w + "\\b").test(s))
FilterWord(ws, s) == SelectSeq(ws, LAMBDA w : TestWord(s, w))

(***************************************************************************)
(* analyzer: the dictionaries                                              *)
(***************************************************************************)
BUZZWORDS == <<
    "synergy", "passionate", "dynamic", "self-starter", "hardworking", "team player",
    "results-driven", "go-getter", "proactive", "detail-oriented", "innovative",
    "guru", "ninja", "rockstar", "visionary", "thought leader", "motivated",
    "dedicated", "enthusiastic", "strategic thinker", "fast learner", "people person",
    "outside the box", "value-added", "best of breed", "paradigm", "leverage",
    "synergize", "holistic", "bandwidth", "deep dive", "circle back", "low-hanging fruit",
    "move the needle", "game-changer", "disruptive", "bleeding edge", "mission-critical",
    "action-oriented", "bottom line", "core competency", "empower", "stakeholder",
    "scalable", "ecosystem", "pivot", "agile mindset", "wear many hats" >>

TECH_DICTIONARY == <<
    "react", "angular", "vue", "svelte", "next.js", "nuxt", "gatsby",
    "node.js", "express", "fastify", "django", "flask", "rails", "spring",
    "typescript", "javascript", "python", "java", "c#", "c++", "go", "rust", "kotlin", "swift",
    "aws", "gcp", "azure", "docker", "kubernetes", "terraform", "ansible",
    "postgresql", "mysql", "mongodb", "redis", "elasticsearch", "dynamodb", "cassandra",
    "kafka", "rabbitmq", "graphql", "rest", "grpc", "websocket",
    "ci/cd", "jenkins", "github actions", "gitlab ci", "circleci",
    "react native", "flutter", "ionic", ".net", "laravel", "symfony",
    "tailwind", "sass", "less", "webpack", "vite", "rollup",
    "figma", "sketch", "photoshop", "illustrator",
    "sql", "nosql", "linux", "nginx", "apache",
    "git", "jira", "confluence", "slack",
    "machine learning", "deep learning", "tensorflow", "pytorch", "scikit-learn",
    "pandas", "numpy", "spark", "hadoop", "airflow", "dbt",
    "tableau", "power bi", "looker", "snowflake", "bigquery", "redshift",
    "oauth", "jwt", "saml", "ldap", "openid",
    "microservices", "serverless", "lambda", "s3", "ec2", "cloudfront" >>

SCALE_WORDS == <<
    "million", "billion", "high-traffic", "distributed", "microservices",
    "latency", "throughput", "scalability", "concurrent", "petabyte",
    "terabyte", "real-time", "low-latency", "fault-tolerant", "load balancing",
    "horizontal scaling", "vertical scaling", "sharding", "replication" >>

IMPACT_VERBS == <<
    "reduced", "increased", "improved", "boosted", "grew", "saved",
    "generated", "delivered", "achieved", "optimized", "accelerated",
    "streamlined", "automated", "eliminated", "decreased", "doubled",
    "tripled", "launched", "shipped", "deployed", "migrated", "designed",
    "architected", "built", "developed", "implemented", "created",
    "established", "led", "managed", "mentored", "coached", "trained" >>

SHIPPING_VERBS == <<
    "built", "shipped", "launched", "deployed", "released", "published", "created", "developed" >>

VAGUE_PHRASES == <<
    "responsible for", "duties included", "helped with", "assisted in",
    "worked on", "involved in", "participated in", "tasked with",
    "in charge of", "various tasks", "day-to-day", "miscellaneous" >>

ROUTINE_ROLE_KEYWORDS == <<
    "data entry", "receptionist", "filing", "administrative assistant",
    "cashier", "clerk", "customer service representative", "operator" >>

OWNERSHIP_KEYWORDS == <<
    "led", "owned", "architected", "designed", "founded", "co-founded",
    "principal", "staff", "senior", "director", "vp", "head of",
    "chief", "manager", "tech lead", "team lead" >>

ADAPTABILITY_KEYWORDS == <<
    "learned", "migrated", "adopted", "transitioned", "pivoted",
    "cross-functional", "full-stack", "multi-stack", "polyglot",
    "led adoption", "introduced", "pioneered" >>

(***************************************************************************)
(* analyzer: text normalisation, sections, bullets                         *)
(***************************************************************************)
\* s.replace(/\r\n/g, "\n"): a \r that a \n follows is dropped
replaceCRLF(s) ==
    ConcatRange([i \in 1..Len(s) |->
                    IF SubSeq(s, i, i) = "\r" /\ Ch(s, i + 1) = "\n" THEN "" ELSE SubSeq(s, i, i)],
                1, Len(s))

\* s.replace(/\t/g, " ")
replaceTabs(s) ==
    ConcatRange([i \in 1..Len(s) |-> IF SubSeq(s, i, i) = "\t" THEN " " ELSE SubSeq(s, i, i)],
                1, Len(s))

\* s.replace(/c{n,}/g, repl): every maximal run of at least n characters c becomes repl
CollapseRuns(s, c, n, repl) ==
    LET runStart(i) == Ch(s, i) = c /\ Ch(s, i - 1) # c
        runLen(i) == SkipClass(s, i, {c}) - i
        \* whether position i lies in a run of at least n: some window of n around it is all c
        inLongRun(i) == \E a \in (i - n + 1)..i : \A k \in a..(a + n - 1) : Ch(s, k) = c
    IN  ConcatRange([i \in 1..Len(s) |->
                        IF ~inLongRun(i) THEN SubSeq(s, i, i)
                        ELSE IF runStart(i) THEN repl ELSE ""],
                    1, Len(s))

cleanText(text) ==
    trim(CollapseRuns(CollapseRuns(replaceTabs(replaceCRLF(text)), " ", 3, "  "), "\n", 4, "\n\n\n"))

\* the heading patterns of extractSections, in the order of Object.entries
sectionHeaders == <<
    [name |-> "experience",
     alts |-> <<"experience", "employment", "work history", "professional experience", "career">>],
    [name |-> "projects",
     alts |-> <<"projects", "personal projects", "side projects", "portfolio">>],
    [name |-> "skills",
     alts |-> <<"skills", "technical skills", "technologies", "competencies", "proficiencies", "tech stack">>],
    [name |-> "education",
     alts |-> <<"education", "academic", "degree", "university", "college", "school">>],
    [name |-> "summary",
     alts |-> <<"summary", "objective", "profile", "about", "about me", "professional summary", "career objective">>],
    [name |-> "certifications",
     alts |-> <<"certifications", "certification", "licenses", "license", "credentials",
                "accreditations", "accreditation">>] >>

\* the name of the first header whose pattern the trimmed line matches, whatever the
\* length of the line ("" if none)
headerOfAnyLength(trimmed) ==
    LET lower == toLowerCase(trimmed)
        hits == {k \in 1..Len(sectionHeaders) : TestAnyWord(lower, sectionHeaders[k].alts)}
    IN  IF hits = {} THEN ""
        ELSE sectionHeaders[CHOOSE k \in hits : \A j \in hits : k <= j].name

\* the name of the last header whose pattern the trimmed line matches ("" if none)
headerOfLastMatch(trimmed) ==
    LET lower == toLowerCase(trimmed)
        hits == {k \in 1..Len(sectionHeaders) :
                    TestAnyWord(lower, sectionHeaders[k].alts) /\ Len(trimmed) < 60}
    IN  IF hits = {} THEN ""
        ELSE sectionHeaders[CHOOSE k \in hits : \A j \in hits : k >= j].name

\* the name of the first header whose pattern the trimmed line matches ("" if none)
headerOf(trimmed) ==
    LET lower == toLowerCase(trimmed)
        hits == {k \in 1..Len(sectionHeaders) :
                    TestAnyWord(lower, sectionHeaders[k].alts) /\ Len(trimmed) < 60}
    IN  IF hits = {} THEN ""
        ELSE sectionHeaders[CHOOSE k \in hits : \A j \in hits : k <= j].name

\* sections[k] = v
Put(sections, k, v) == [x \in (DOMAIN sections) \cup {k} |-> IF x = k THEN v ELSE sections[x]]

\* !!sections[k]
Has(sections, k) == k \in DOMAIN sections /\ sections[k] # ""

RECURSIVE sectionsLoopNoFinalCommit(_, _, _, _)
\* the loop over the lines of extractSections without the commit after it
sectionsLoopNoFinalCommit(lines, sections, currentSection, currentContent) ==
    IF lines = <<>> THEN sections
    ELSE LET name == headerOf(trim(Head(lines)))
         IN  IF name # ""
             THEN sectionsLoopNoFinalCommit(Tail(lines),
                      IF Len(currentContent) > 0
                      THEN Put(sections, currentSection, trim(joinLines(currentContent)))
                      ELSE sections,
                      name, <<>>)
             ELSE sectionsLoopNoFinalCommit(Tail(lines), sections, currentSection,
                                            Append(currentContent, Head(lines)))

RECURSIVE sectionsLoop(_, _, _, _)
\* the loop over the lines of extractSections and the commit after it
sectionsLoop(lines, sections, currentSection, currentContent) ==
    LET committed == IF Len(currentContent) > 0
                     THEN Put(sections, currentSection, trim(joinLines(currentContent)))
                     ELSE sections
    IN  IF lines = <<>> THEN committed
        ELSE LET name == headerOf(trim(Head(lines)))
             IN  IF name # ""
                 THEN sectionsLoop(Tail(lines), committed, name, <<>>)
                 ELSE sectionsLoop(Tail(lines), sections, currentSection, Append(currentContent, Head(lines)))

extractSections(text) == sectionsLoop(splitLines(text), <<>>, "preamble", <<>>)

\* the bullet glyphs of extractBullets that are ASCII
BulletGlyphs == {"-", "*"}

\* /^[-*]\s+/.test(trimmed) || /^\d+[.)]\s+/.test(trimmed)
isBulletLine(trimmed) ==
    \/ Ch(trimmed, 1) \in BulletGlyphs /\ Ch(trimmed, 2) \in SpaceChars
    \/ LET e == SkipClass(trimmed, 1, DigitChars)
       IN  e > 1 /\ Ch(trimmed, e) \in {".", ")"} /\ Ch(trimmed, e + 1) \in SpaceChars

\* trimmed.replace(/^[-*\d.)\s]+/, "").trim()
stripMarker(trimmed) ==
    trim(From(trimmed, SkipClass(trimmed, 1, BulletGlyphs \cup DigitChars \cup {".", ")"} \cup SpaceChars)))

extractBullets(text) ==
    LET lines == splitLines(text)
        kept == SelectSeq(lines, LAMBDA line : isBulletLine(trim(line)) /\ Len(stripMarker(trim(line))) > 5)
    IN  [k \in 1..Len(kept) |-> stripMarker(trim(kept[k]))]

(***************************************************************************)
(* analyzer: the counting patterns.  MatchEnd(p, s, i) is the position     *)
(* after the match of pattern p that starts at position i of s, 0 when     *)
(* there is none; s is lower-cased by the caller for the patterns with     *)
(* flag i.                                                                 *)
(***************************************************************************)
\* the first of the alternatives alts that occurs at position i of s and satisfies
\* ok(end), as the position after it (0 if none)
FirstAlt(s, i, alts, needBoundary) ==
    LET hits == {k \in 1..Len(alts) :
                    StartsAt(s, i, alts[k]) /\ (needBoundary => WordBoundary(s, i + Len(alts[k])))}
    IN  IF hits = {} THEN 0
        ELSE i + Len(alts[CHOOSE k \in hits : \A j \in hits : k <= j])

DurationUnits == <<"ms", "s", "sec", "mins", "min", "hours", "hour", "days", "day">>

MagnitudeUnits == <<"k", "m", "b">>

EntityWords == <<"users", "user", "customers", "customer", "clients", "client",
                 "transactions", "transaction", "requests", "request", "downloads", "download">>

ImpactPatternVerbs == <<"reduced", "increased", "improved", "boosted", "grew", "saved",
                        "generated", "optimized">>

MatchEnd(p, s, i) ==
    CASE p = "percent" ->        \* /\d+%/g
            LET e == SkipClass(s, i, DigitChars)
            IN  IF e > i /\ Ch(s, e) = "%" THEN e + 1 ELSE 0
      [] p = "dollar" ->         \* /\$[\d,]+/g
            LET e == SkipClass(s, i + 1, DigitChars \cup {","})
            IN  IF Ch(s, i) = "$" /\ e > i + 1 THEN e ELSE 0
      [] p = "duration" ->       \* /\d+(?:ms|s|sec|mins?|hours?|days?)\b/g
            LET e == SkipClass(s, i, DigitChars)
            IN  IF e > i THEN FirstAlt(s, e, DurationUnits, TRUE) ELSE 0
      [] p = "magnitude" ->      \* /\d+(?:k|m|b)\b/gi
            LET e == SkipClass(s, i, DigitChars)
            IN  IF e > i THEN FirstAlt(s, e, MagnitudeUnits, TRUE) ELSE 0
      [] p = "multiplier" ->     \* /\d+x\b/gi
            LET e == SkipClass(s, i, DigitChars)
            IN  IF e > i THEN FirstAlt(s, e, <<"x">>, TRUE) ELSE 0
      [] p = "entities" ->       \* /\d[\d,]*\+?\s*(?:users?|customers?|clients?|transactions?|requests?|downloads?)/gi
            LET e1 == SkipClass(s, i + 1, DigitChars \cup {","})
                e2 == IF Ch(s, e1) = "+" THEN e1 + 1 ELSE e1
                e3 == SkipSpaces(s, e2)
            IN  IF Ch(s, i) \in DigitChars THEN FirstAlt(s, e3, EntityWords, FALSE) ELSE 0
      [] p = "impact" ->         \* /(?:reduced|...|optimized)\s+\w+\s+(?:by\s+)?\d/gi
            LET a == FirstAlt(s, i, ImpactPatternVerbs, FALSE)
                b == SkipSpaces(s, a)
                c == SkipClass(s, b, WordChars)
                d == SkipSpaces(s, c)
                e == SkipSpaces(s, d + 2)
            IN  IF a = 0 \/ b = a \/ c = b \/ d = c THEN 0
                ELSE IF StartsAt(s, d, "by") /\ e > d + 2 /\ Ch(s, e) \in DigitChars THEN e + 1
                ELSE IF Ch(s, d) \in DigitChars THEN d + 1
                ELSE 0
      [] p = "url" ->            \* /https?:\/\/[^\s)]+/gi
            LET a == FirstAlt(s, i, <<"https://", "http://">>, FALSE)
                e == SkipUntil(s, a, SpaceChars \cup {")"})
            IN  IF a = 0 \/ e = a THEN 0 ELSE e

\* the scan at one start position, e the end of the match there (0 if none)
ScanStep(e, start) == IF e > 0 THEN [count |-> 1, next |-> e] ELSE [count |-> 0, next |-> start]

RECURSIVE ScanMatches(_, _, _, _, _)
\* The scan of s.match(/p/g) over the start positions lo..hi, none before position
\* start being tried: the number of matches found and the position where the scan
\* goes on (after the last match).  The range is halved to keep the evaluation shallow.
ScanMatches(p, s, lo, hi, start) ==
    IF lo > hi THEN [count |-> 0, next |-> start]
    ELSE IF lo = hi
    THEN ScanStep(IF lo < start THEN 0 ELSE MatchEnd(p, s, lo), start)
    ELSE LET mid == (lo + hi) \div 2
             left == ScanMatches(p, s, lo, mid, start)
             right == ScanMatches(p, s, mid + 1, hi, left.next)
         IN  [count |-> left.count + right.count, next |-> right.next]

\* the patterns with the flag i
IgnoreCase == {"magnitude", "multiplier", "entities", "impact", "url"}

\* (text.match(/p/g) || []).length
CountMatches(p, text) ==
    WithValue(IF p \in IgnoreCase THEN toLowerCase(text) ELSE text,
              LAMBDA s : ScanMatches(p, s, 1, Len(s), 1).count)

RECURSIVE CountPatterns(_, _, _)
\* the loop for (const p of patterns) count += (text.match(p) || []).length, from
\* pattern k on
CountPatterns(patterns, text, k) ==
    IF k > Len(patterns) THEN 0
    ELSE CountMatches(patterns[k], text) + CountPatterns(patterns, text, k + 1)

countMetrics(text) ==
    CountPatterns(<<"percent", "dollar", "duration", "magnitude", "multiplier", "entities", "impact">>,
                  text, 1)

countLinks(text) == CountPatterns(<<"url">>, text, 1)

detectBuzzwords(text) ==
    LET found == FilterIncluded(BUZZWORDS, toLowerCase(text))
    IN  [hits |-> Len(found), found |-> found]

\* [...new Set(found)]: the first occurrence of each element, in order
Dedupe(ws) ==
    LET firsts == {k \in 1..Len(ws) : \A j \in 1..(k - 1) : ws[j] # ws[k]}
    IN  [n \in 1..Cardinality(firsts) |->
            ws[CHOOSE k \in firsts : Cardinality({j \in firsts : j <= k}) = n]]

detectTechStack(text) == Dedupe(FilterWord(TECH_DICTIONARY, toLowerCase(text)))

detectScaleWords(text) == FilterIncluded(SCALE_WORDS, toLowerCase(text))

detectVaguePhrases(text) == FilterIncluded(VAGUE_PHRASES, toLowerCase(text))

detectImpactVerbs(text) == FilterWord(IMPACT_VERBS, toLowerCase(text))

\* ws.some((k) => lower.includes(k))
SomeIncluded(ws, s) == \E k \in 1..Len(ws) : Includes(s, ws[k])

\* bullets.filter((b) => b.split(/\s+/).length > n).length (a bullet is trimmed and not
\* empty, so split yields no empty string)
CountLongerThan(bullets, n) == Cardinality({k \in 1..Len(bullets) : CountWords(bullets[k]) > n})

\* bullets.filter((b) => b.split(/\s+/).length < n).length
CountShorterThan(bullets, n) == Cardinality({k \in 1..Len(bullets) : CountWords(bullets[k]) < n})

\* /(?:portfolio|\.dev|\.io|\.com\/~|personal\s*website)/i.test(cleaned)
testWebsiteLink(lower) ==
    \/ SomeIncluded(<<"portfolio", ".dev", ".io", ".com/~">>, lower)
    \/ \E i \in 1..Len(lower) :
          StartsAt(lower, i, "personal") /\ StartsAt(lower, SkipSpaces(lower, i + 8), "website")

(***************************************************************************)
(* analyzeResume, first half: the features read off the cleaned text.      *)
(***************************************************************************)
extractFeatures(text) ==
    LET cleaned == cleanText(text)
        sections == extractSections(cleaned)
        bullets == extractBullets(cleaned)
        lower == toLowerCase(cleaned)
    IN  [ wordCount |-> CountWords(cleaned),
          bulletCount |-> Len(bullets),
          metricCount |-> countMetrics(cleaned),
          linkCount |-> countLinks(cleaned),
          buzzwordHits |-> detectBuzzwords(cleaned).hits,
          techStack |-> Len(detectTechStack(cleaned)),
          scaleWords |-> Len(detectScaleWords(cleaned)),
          vaguePhrases |-> Len(detectVaguePhrases(cleaned)),
          impactVerbs |-> Len(detectImpactVerbs(cleaned)),
          longBullets |-> CountLongerThan(bullets, 35),
          shortBullets |-> CountShorterThan(bullets, 6),
          hasExperience |-> Has(sections, "experience"),
          hasProjects |-> Has(sections, "projects"),
          hasSkills |-> Has(sections, "skills"),
          hasEducation |-> Has(sections, "education"),
          hasSummary |-> Has(sections, "summary"),
          hasCertifications |-> Has(sections, "certifications"),
          hasShippingVerbs |-> TestAnyWord(lower, SHIPPING_VERBS),
          hasGitHubLink |-> Includes(lower, "github.com"),
          hasWebsiteLink |-> testWebsiteLink(lower),
          hasRoutineRoleSignals |-> SomeIncluded(ROUTINE_ROLE_KEYWORDS, lower),
          hasOwnershipSignals |-> TestAnyWord(lower, OWNERSHIP_KEYWORDS),
          hasAdaptabilitySignals |-> TestAnyWord(lower, ADAPTABILITY_KEYWORDS) ]

(***************************************************************************)
(* analyzeResume, second half: the scoring rubric.  Proof of Impact is the *)
(* one score that need not be an integer (metricCount / bullets.length);   *)
(* it is kept as the exact fraction proofNum / proofDen.                   *)
(***************************************************************************)
Min(a, b) == IF a <= b THEN a ELSE b

Max(a, b) == IF a >= b THEN a ELSE b

\* a category score left as computed, without the clamp
NoClamp(v) == v

\* Math.max(0, Math.min(100, v))
Clamp100(v) == Max(0, Min(100, v))

\* Math.ceil(a / b) for b > 0
CeilDiv(a, b) == IF a >= 0 THEN (a + b - 1) \div b ELSE -((-a) \div b)

\* Math.round(a / b) for b > 0: the nearest integer, halves up
RoundDiv(a, b) == (2 * a + b) \div (2 * b)

Bonus(cond, points) == IF cond THEN points ELSE 0

roleSusceptibility(f) ==
    Clamp100(50 + Bonus(f.hasRoutineRoleSignals, 20) - Bonus(f.hasOwnershipSignals, 15)
                + Bonus(f.vaguePhrases > 3, 10) - Bonus(f.impactVerbs > 5, 10))

\* the denominator of the Proof of Impact fraction
proofDen(f) == IF f.bulletCount > 0 THEN f.bulletCount ELSE 1

\* proofOfImpact * proofDen(f) with the metric-per-bullet term taken off
proofNumRatioSubtracted(f) ==
    LET den == proofDen(f)
        ratioTerm == IF f.bulletCount > 0 THEN Min(40 * den, f.metricCount * 50) ELSE 0
    IN  Max(0, Min(100 * den,
                   20 * den - ratioTerm + den * (Bonus(f.impactVerbs > 3, 15)
                       + Bonus(f.impactVerbs > 7, 10) + Bonus(f.metricCount > 5, 10))))

\* proofOfImpact * proofDen(f)
proofNum(f) ==
    LET den == proofDen(f)
        ratioTerm == IF f.bulletCount > 0 THEN Min(40 * den, f.metricCount * 50) ELSE 0
    IN  Max(0, Min(100 * den,
                   20 * den + ratioTerm + den * (Bonus(f.impactVerbs > 3, 15)
                       + Bonus(f.impactVerbs > 7, 10) + Bonus(f.metricCount > 5, 10))))

differentiation(f) ==
    Clamp100(15 + Min(35, f.techStack * 3) + Bonus(f.scaleWords > 0, 15) + Bonus(f.scaleWords > 3, 10)
                + Bonus(f.techStack > 10, 10) + Bonus(f.hasCertifications, 5))

portfolioSignals(f) ==
    Clamp100(10 + Bonus(f.hasGitHubLink, 20) + Bonus(f.hasWebsiteLink, 15) + Bonus(f.hasProjects, 20)
                + Bonus(f.hasShippingVerbs, 15) + Bonus(f.linkCount > 2, 10))

presentSections(f) ==
    Bonus(f.hasExperience, 1) + Bonus(f.hasSkills, 1) + Bonus(f.hasEducation, 1) + Bonus(f.hasSummary, 1)

\* buzzwordDensity > percent / 100, where buzzwordDensity is hits / wordCount, or 0
densityAbove(f, percent) == f.wordCount > 0 /\ 100 * f.buzzwordHits > percent * f.wordCount

clarity(f) ==
    Clamp100(40 + presentSections(f) * 8
                - Bonus(densityAbove(f, 2), 15) - Bonus(densityAbove(f, 4), 10)
                - Bonus(f.longBullets > 3, 10)
                - Bonus(2 * f.shortBullets > f.bulletCount /\ f.bulletCount > 3, 10)
                - Bonus(f.vaguePhrases > 2, 10)
                + Bonus(f.vaguePhrases = 0 /\ f.bulletCount > 3, 10))

adaptability(f) ==
    Clamp100(20 + Bonus(f.hasAdaptabilitySignals, 25) + Bonus(f.techStack > 5, 20)
                + Bonus(f.techStack > 10, 10) + Bonus(f.scaleWords > 0, 10))

\* weights that sum to 1 as well, Proof of Impact and Adaptability changed
uniformWeights == <<20, 20, 15, 15, 15, 15>>

\* weights, as hundredths
weights == <<20, 25, 15, 15, 15, 10>>

\* weightedAvg * 100 * proofDen(f)
weightedNum(f) ==
    LET den == proofDen(f)
    IN  weights[1] * roleSusceptibility(f) * den + weights[2] * proofNum(f)
        + weights[3] * differentiation(f) * den + weights[4] * portfolioSignals(f) * den
        + weights[5] * clarity(f) * den + weights[6] * adaptability(f) * den

\* the risk score with Math.floor in the place of Math.ceil
riskScoreFloored(f) == Max(1, Min(10, weightedNum(f) \div (1000 * proofDen(f))))

riskScore(f) == Max(1, Min(10, CeilDiv(weightedNum(f), 1000 * proofDen(f))))

invertedRisk(f) == 11 - riskScore(f)

riskLabel(inverted) ==
    IF inverted <= 3 THEN "High Risk" ELSE IF inverted <= 6 THEN "Medium Risk" ELSE "Low Risk"

\* breakdown.map((b) => ({ ...b, score: Math.round(100 - b.score) }))
breakdown(f) ==
    << 100 - roleSusceptibility(f),
       RoundDiv(100 * proofDen(f) - proofNum(f), proofDen(f)),
       100 - differentiation(f),
       100 - portfolioSignals(f),
       100 - clarity(f),
       100 - adaptability(f) >>

scoreResume(f) ==
    [ score |-> invertedRisk(f),
      label |-> riskLabel(invertedRisk(f)),
      breakdown |-> breakdown(f),
      detected |-> [ wordCount |-> f.wordCount, bulletCount |-> f.bulletCount,
                     metricCount |-> f.metricCount, linkCount |-> f.linkCount,
                     hasProjects |-> f.hasProjects, hasExperience |-> f.hasExperience,
                     hasSkills |-> f.hasSkills, hasEducation |-> f.hasEducation ] ]

analyzeResume(text) == scoreResume(extractFeatures(text))

(***************************************************************************)
(* Numbers.  JavaScript numbers are doubles: exact on integers below 2^53  *)
(* and rounded to 53 significant bits above.  A seed is kept as a pair of  *)
(* 16-bit halves, a product as four 16-bit limbs, least significant first. *)
(***************************************************************************)
Base == 65536

\* the seed n as a pair of halves
Num(n) == [hi |-> n \div Base, lo |-> n % Base]

\* seed + d, d a small natural number
NumAdd(x, d) == [hi |-> x.hi + (x.lo + d) \div Base, lo |-> (x.lo + d) % Base]

\* seed % k, k a small positive number
NumMod(x, k) == ((x.hi % k) * (Base % k) + (x.lo % k)) % k

\* four limbs from four partial sums, the carries moved up
Carry(t) ==
    LET c1 == t[1] \div Base
        c2 == (t[2] + c1) \div Base
        c3 == (t[3] + c2) \div Base
    IN  <<t[1] % Base, (t[2] + c1) % Base, (t[3] + c2) % Base, t[4] + c3>>

\* the number of significant bits of n < 2^16
BitLen16(n) == CHOOSE b \in 0..16 : n < 2^b /\ (b = 0 \/ n >= 2^(b - 1))

\* the number of significant bits of a four-limb number
BitLen(l) ==
    IF l[4] > 0 THEN 48 + BitLen16(l[4])
    ELSE IF l[3] > 0 THEN 32 + BitLen16(l[3])
    ELSE IF l[2] > 0 THEN 16 + BitLen16(l[2])
    ELSE BitLen16(l[1])

\* the double nearest to a four-limb number below 2^63: the bits under the 53 most
\* significant ones are rounded away, a tie going to the even neighbour
RoundBits(l, pow) ==
    LET rem == l[1] % pow
        lsb == (l[1] \div pow) % 2
        up == pow >= 2 /\ (2 * rem > pow \/ (2 * rem = pow /\ lsb = 1))
    IN  Carry(<<l[1] - rem + (IF up THEN pow ELSE 0), l[2], l[3], l[4]>>)

RoundDouble(l) == RoundBits(l, 2^Max(0, BitLen(l) - 53))

\* s * 1103515245 as a double
TimesMultiplier(x) ==
    LET a1 == 1103515245 \div Base
        a0 == 1103515245 % Base
        p00 == x.lo * a0
        p01 == x.lo * a1
        p10 == x.hi * a0
        p11 == x.hi * a1
    IN  RoundDouble(Carry(<<p00, (p01 % Base) + (p10 % Base),
                            (p01 \div Base) + (p10 \div Base) + (p11 % Base), p11 \div Base>>))

\* (s * 1103515245 + 12345) & 0x7fffffff
\* l + 12345 as a double
PlusIncrement(l) == RoundDouble(Carry(<<l[1] + 12345, l[2], l[3], l[4]>>))

\* l & 0x7fffffff
LowBits(l) == (l[2] % 32768) * Base + l[1]

\* (s * 1103515245 + 12345) & 0x7fffffff
lcg(x) == LowBits(PlusIncrement(TimesMultiplier(x)))

\* the characters of ASCII with the codes 32..95, in the order of their codes
AsciiLow == " !\"#$%&'()*+,-./0123456789:;<=>?@ABCDEFGHIJKLMNOPQRSTUVWXYZ[\\]^_"

\* the characters of ASCII with the codes 97..126, in the order of their codes
AsciiHigh == "abcdefghijklmnopqrstuvwxyz{|}~"

\* String.prototype.charCodeAt of the one-character string c
charCode(c) ==
    IF c = "\n" THEN 10
    ELSE IF c = "\t" THEN 9
    ELSE IF c = "\r" THEN 13
    ELSE IF \E i \in 1..Len(AsciiLow) : SubSeq(AsciiLow, i, i) = c
    THEN 31 + (CHOOSE i \in 1..Len(AsciiLow) : SubSeq(AsciiLow, i, i) = c)
    ELSE 96 + (CHOOSE i \in 1..Len(AsciiHigh) : SubSeq(AsciiHigh, i, i) = c)

\* a * b modulo 2^16, a and b below 2^16
MulLow(a, b) == (a * (b % 256) + ((a * (b \div 256)) % 256) * 256) % Base

\* x * y modulo 2^32, x and y unsigned pairs of halves
MulWrap(x, y) ==
    LET u == x.lo * (y.lo \div 256)
        low == x.lo * (y.lo % 256) + (u % 256) * 256
    IN  [hi |-> (u \div 256 + low \div Base + MulLow(x.hi, y.lo) + MulLow(x.lo, y.hi)) % Base,
         lo |-> low % Base]

\* x + y modulo 2^32
AddWrap(x, y) == [hi |-> (x.hi + y.hi + (x.lo + y.lo) \div Base) % Base, lo |-> (x.lo + y.lo) % Base]

RECURSIVE hashRange(_, _, _)
\* The loop of simpleHash over the characters lo..hi of str.  One round is
\* hash = (hash << 5) - hash + char; hash = hash & hash, which is 31 * hash + char
\* wrapped to 32 bits, so the rounds over lo..hi take hash to mul * hash + add.  The
\* range is halved to keep the evaluation shallow.
hashRange(str, lo, hi) ==
    IF lo > hi THEN [mul |-> Num(1), add |-> Num(0)]
    ELSE IF lo = hi THEN [mul |-> Num(31), add |-> Num(charCode(SubSeq(str, lo, lo)))]
    ELSE LET mid == (lo + hi) \div 2
             left == hashRange(str, lo, mid)
             right == hashRange(str, mid + 1, hi)
         IN  [mul |-> MulWrap(left.mul, right.mul),
              add |-> AddWrap(MulWrap(left.add, right.mul), right.add)]

\* Math.abs of the int32 whose unsigned pair of halves is h
absInt32(h) ==
    IF h.hi < 32768 THEN h
    ELSE [hi |-> Base - 1 - h.hi + (IF h.lo = 0 THEN 1 ELSE 0), lo |-> (Base - h.lo) % Base]

simpleHash(str) == absInt32(hashRange(str, 1, Len(str)).add)


(***************************************************************************)
(* roaster: the templates                                                  *)
(***************************************************************************)
LEVEL_ORDER == [light |-> 0, medium |-> 1, spicy |-> 2]

\* The templates in the order of the source; trigger is the text of the body of the
\* trigger function, which Trigger evaluates.
TEMPLATES == <<
  [ minLevel |-> "light", trigger |-> "true", category |-> "overall",
    lines |-> <<
        "I've seen better resumes on the back of napkins at a Denny's.",
        "Your resume walked into the room and the ATS system literally threw up.",
        "This resume has the energy of a participation trophy.",
        "If resumes were movies, yours would go straight to DVD. In 2004.",
        "Your resume reads like a Wikipedia article nobody bothered to cite.",
        "This resume is the 'we have a candidate at home' of resumes." >> ],
  [ minLevel |-> "medium", trigger |-> "true", category |-> "overall",
    lines |-> <<
        "I've read tax forms more exciting than this resume. And I've read a LOT of tax forms.",
        "Your resume is proof that spell check doesn't fix boring.",
        "This resume needs less buzzwords and more 'I actually did something.'",
        "If your resume were a meal, it'd be unseasoned chicken breast on a paper plate.",
        "Your resume is like a horror movie - terrifying, but for all the wrong reasons.",
        "I showed this resume to a recruiter and they asked for combat pay." >> ],
  [ minLevel |-> "spicy", trigger |-> "true", category |-> "overall",
    lines |-> <<
        "Holy hell, did you write this resume during a damn earthquake?",
        "This resume is so bad, LinkedIn would reject it as spam. And LinkedIn accepts EVERYTHING.",
        "Whoever told you this resume was good needs to be fired. Then rehired. Then fired again.",
        "Your resume hits different. And by 'different' I mean 'like a truck full of red flags.'",
        "This resume is the professional equivalent of showing up to a job interview in Crocs.",
        "Jesus Christ, I've seen better-organized crime scenes than this resume." >> ],
  [ minLevel |-> "light", trigger |-> "ctx.metricCount === 0", category |-> "no_metrics",
    lines |-> <<
        "Not a single number in sight. Did you think this was a poetry reading?",
        "Your achievements section is just... vibes. Recruiters need numbers, not aura.",
        "Zero metrics. You could have made some up and it would've been an improvement.",
        "Show me the numbers! Where are the damn numbers?!" >> ],
  [ minLevel |-> "medium", trigger |-> "ctx.metricCount === 0", category |-> "no_metrics",
    lines |-> <<
        "You managed to write an entire resume without a single measurable achievement. That's actually impressive in the worst way.",
        "Not one percentage, not one dollar figure, not one 'increased by.' What the hell did you do all day?",
        "The absence of metrics here is so complete, I'm almost in awe. It's like you're allergic to accountability." >> ],
  [ minLevel |-> "spicy", trigger |-> "ctx.metricCount === 0", category |-> "no_metrics",
    lines |-> <<
        "Not a single goddamn metric. Did you just sit in a chair for three years and call it 'experience'?",
        "Zero numbers. Your resume is basically a long-form excuse note from your career.",
        "The sheer audacity of submitting a resume with zero metrics. I respect the delusion." >> ],
  [ minLevel |-> "light", trigger |-> "ctx.buzzwordCount > 3", category |-> "buzzwords",
    lines |-> <<
        "\"{BW1}\" and \"{BW2}\" in the same resume? Corporate bingo is not a skill.",
        "Your resume reads like someone ate a LinkedIn post and threw up on a Word doc.",
        "If I had a dollar for every buzzword, I could afford to stop reading this." >> ],
  [ minLevel |-> "medium", trigger |-> "ctx.buzzwordCount > 3", category |-> "buzzwords",
    lines |-> <<
        "You crammed so many buzzwords in here, I thought this was a Fortune 500 press release.",
        "Somewhere, a recruiter just rolled their eyes so hard they saw their own brain.",
        "Your buzzword-to-substance ratio is genuinely concerning." >> ],
  [ minLevel |-> "spicy", trigger |-> "ctx.buzzwordCount > 3", category |-> "buzzwords",
    lines |-> <<
        "The buzzword density here could power a goddamn LinkedIn influencer for a month.",
        "I swear you just fed a thesaurus into a blender and hit 'resume mode.'",
        "Calling yourself a 'dynamic synergy-driven thought leader' isn't a personality. It's a cry for help." >> ],
  [ minLevel |-> "light", trigger |-> "ctx.vaguePhrases.length > 0", category |-> "vague",
    lines |-> <<
        "\"Responsible for\" what, exactly? Existing? Showing up?",
        "Your bullet points have all the specificity of a horoscope.",
        "'Assisted in various tasks' - please, tell me less." >> ],
  [ minLevel |-> "medium", trigger |-> "ctx.vaguePhrases.length > 0", category |-> "vague",
    lines |-> <<
        "'Responsible for' is doing a lot of heavy lifting here. Unfortunately, your resume isn't.",
        "These bullets are so vague, a psychic couldn't tell what you actually did.",
        "Your 'experience' section reads like a really boring mystery novel with no resolution." >> ],
  [ minLevel |-> "spicy", trigger |-> "ctx.vaguePhrases.length > 0", category |-> "vague",
    lines |-> <<
        "'Responsible for various tasks.' That's literally the most useless sentence in the English language.",
        "Your bullets are so vague, they'd fail a background check on THEMSELVES.",
        "I've seen fortune cookies with more detail than your work history." >> ],
  [ minLevel |-> "light", trigger |-> "ctx.bulletCount < 5", category |-> "weak_bullets",
    lines |-> <<
        "You have fewer bullet points than a grocery list for a college student.",
        "Your resume is lighter than a rice cake and twice as bland." >> ],
  [ minLevel |-> "medium", trigger |-> "ctx.bulletCount < 5", category |-> "weak_bullets",
    lines |-> <<
        "This resume has fewer bullet points than my morning to-do list, and mine just says 'coffee.'",
        "Did you run out of things to say or did you just give up?" >> ],
  [ minLevel |-> "light", trigger |-> "!ctx.hasProjects", category |-> "no_projects",
    lines |-> <<
        "No projects section? Do you even build things?",
        "Where are your side projects? Your experiments? Your 'look what I made'?" >> ],
  [ minLevel |-> "medium", trigger |-> "!ctx.hasProjects", category |-> "no_projects",
    lines |-> <<
        "No projects section at all. What do you do outside of work, just stare at the ceiling?",
        "The absence of a projects section is deafening. It screams 'I only code when someone pays me.'" >> ],
  [ minLevel |-> "spicy", trigger |-> "!ctx.hasProjects", category |-> "no_projects",
    lines |-> <<
        "No projects? No GitHub? No portfolio? What the hell have you been doing with your life?",
        "Not a single side project. Your passion for this career could be measured with a damn microscope." >> ],
  [ minLevel |-> "light", trigger |-> "ctx.techStack.length < 3", category |-> "generic_skills",
    lines |-> <<
        "Your skills section is so generic, it could belong to literally anyone.",
        "Listing 'Microsoft Office' as a skill in 2024 is certainly a choice." >> ],
  [ minLevel |-> "medium", trigger |-> "ctx.techStack.length < 3", category |-> "generic_skills",
    lines |-> <<
        "Your skill list reads like the default settings on a new laptop.",
        "I've seen more specialized skill sets on a Swiss Army knife." >> ],
  [ minLevel |-> "light", trigger |-> "!ctx.hasSummary && ctx.wordCount > 200", category |-> "no_summary",
    lines |-> <<
        "No summary? You just threw us in without even a 'hello'? Bold.",
        "Starting a resume without a summary is like starting a conversation mid-sentence." >> ],
  [ minLevel |-> "medium", trigger |-> "!ctx.hasSummary && ctx.wordCount > 200", category |-> "no_summary",
    lines |-> <<
        "You skipped the summary section like it was leg day at the gym.",
        "No profile summary. The recruiter has to just... guess who you are? Cool cool cool." >> ],
  [ minLevel |-> "light", trigger |-> "ctx.linkCount === 0", category |-> "no_links",
    lines |-> <<
        "Not a single link? No GitHub, no LinkedIn, no portfolio. Mystery candidate.",
        "Zero URLs. In 2024. Are you in witness protection?" >> ],
  [ minLevel |-> "medium", trigger |-> "ctx.linkCount === 0", category |-> "no_links",
    lines |-> <<
        "No links at all? Your online presence is as invisible as your resume is bland.",
        "Zero links. Either you don't have an internet presence or you're actively hiding from it." >> ],
  [ minLevel |-> "light", trigger |-> "ctx.wordCount > 1000", category |-> "too_long",
    lines |-> <<
        "This is a resume, not a novel. Brevity is the soul of getting hired.",
        "You wrote a small book. Recruiters spend 6 seconds. SIX. SECONDS." >> ],
  [ minLevel |-> "medium", trigger |-> "ctx.wordCount > 1000", category |-> "too_long",
    lines |-> <<
        "Your resume is so long, it needs a table of contents and an index.",
        "I started reading this resume yesterday and I'm still not done." >> ],
  [ minLevel |-> "light", trigger |-> "ctx.wordCount < 150 && ctx.wordCount > 30", category |-> "too_short",
    lines |-> <<
        "This resume is shorter than a tweet thread. Actually, that's an insult to tweets.",
        "Is this your resume or your Tinder bio? Either way, swipe left." >> ],
  [ minLevel |-> "light", trigger |-> "true", category |-> "finisher",
    lines |-> <<
        "Look, I'm roasting because I care. Now go fix this thing.",
        "On the bright side, the only direction from here is up. WAY up.",
        "Your resume has potential. It's just buried under a mountain of mediocrity.",
        "The good news? You can fix all of this. The bad news? You need to fix all of this." >> ],
  [ minLevel |-> "medium", trigger |-> "true", category |-> "finisher",
    lines |-> <<
        "I've seen worse resumes. But I had to really think about it.",
        "This resume is fixable. But we're talking renovations, not a fresh coat of paint.",
        "Take this roast, learn from it, and come back stronger. Your resume sure as hell can't come back weaker." >> ],
  [ minLevel |-> "spicy", trigger |-> "true", category |-> "finisher",
    lines |-> <<
        "Holy hell, what a ride. Go rewrite this entire damn thing and come back when you're serious.",
        "If your career was a stock, your resume just triggered a sell-off. Time to rally.",
        "I'm done. My eyes need therapy. Go fix this abomination." >> ] >>
\* the trigger function of a template, applied to the context
Trigger(trigger, ctx) ==
    CASE trigger = "true" -> TRUE
      [] trigger = "ctx.metricCount === 0" -> ctx.metricCount = 0
      [] trigger = "ctx.buzzwordCount > 3" -> ctx.buzzwordCount > 3
      [] trigger = "ctx.vaguePhrases.length > 0" -> Len(ctx.vaguePhrases) > 0
      [] trigger = "ctx.bulletCount < 5" -> ctx.bulletCount < 5
      [] trigger = "!ctx.hasProjects" -> ~ctx.hasProjects
      [] trigger = "ctx.techStack.length < 3" -> Len(ctx.techStack) < 3
      [] trigger = "!ctx.hasSummary && ctx.wordCount > 200" -> ~ctx.hasSummary /\ ctx.wordCount > 200
      [] trigger = "ctx.linkCount === 0" -> ctx.linkCount = 0
      [] trigger = "ctx.wordCount > 1000" -> ctx.wordCount > 1000
      [] trigger = "ctx.wordCount < 150 && ctx.wordCount > 30" -> ctx.wordCount < 150 /\ ctx.wordCount > 30

(***************************************************************************)
(* roaster: the context of a text (its field text, which nothing reads,    *)
(* is left out)                                                            *)
(***************************************************************************)
\* the metric patterns of the roaster and the improver: /\d+%/, /\$[\d,]+/, /\d+x\b/i
metricPatterns == <<"percent", "dollar", "multiplier">>

buildContext(text) ==
    LET lower == toLowerCase(text)
        buzzResult == detectBuzzwords(text)
    IN  [ wordCount |-> CountWords(text),
          bulletCount |-> Len(extractBullets(text)),
          metricCount |-> CountPatterns(metricPatterns, text, 1),
          linkCount |-> CountPatterns(<<"url">>, text, 1),
          buzzwordCount |-> buzzResult.hits,
          buzzwords |-> buzzResult.found,
          vaguePhrases |-> detectVaguePhrases(text),
          techStack |-> detectTechStack(text),
          hasProjects |-> TestAnyWord(lower, <<"projects", "personal projects", "side projects", "portfolio">>),
          hasExperience |-> TestAnyWord(lower, <<"experience", "employment", "work history">>),
          hasSkills |-> TestAnyWord(lower, <<"skills", "technical skills", "technologies">>),
          hasSummary |-> TestAnyWord(lower, <<"summary", "objective", "profile", "about">>),
          hasEducation |-> TestAnyWord(lower, <<"education", "academic", "degree", "university">>) ]

(***************************************************************************)
(* roaster: the seeded choices.  A seed is a pair of halves (Num).         *)
(***************************************************************************)
\* [result[i], result[j]] = [result[j], result[i]], i and j counted from 1
Swap(arr, i, j) == [arr EXCEPT ![i] = arr[j], ![j] = arr[i]]

\* one round of the loop of seededShuffle at index i (counted from 0):
\* s = (s * 1103515245 + 12345) & 0x7fffffff; j = s % (i + 1); result[i] and
\* result[j] change places
shuffleRound(prev, i) ==
    WithValue(lcg(prev.s),
              LAMBDA s2 : [result |-> Swap(prev.result, i + 1, (s2 % (i + 1)) + 1), s |-> Num(s2)])

RECURSIVE shuffleRounds(_, _, _)
\* result and s after the first t rounds of the loop of seededShuffle, round t at
\* index i = result.length - t
shuffleRounds(arr, seed, t) ==
    IF t <= 0 THEN [result |-> arr, s |-> seed]
    ELSE WithValue(shuffleRounds(arr, seed, t - 1), LAMBDA prev : shuffleRound(prev, Len(arr) - t))

seededShuffle(arr, seed) == shuffleRounds(arr, seed, Len(arr) - 1).result

seededPick(arr, seed) == arr[(lcg(seed) % Len(arr)) + 1]

\* String.prototype.replace(pat, repl) with a string pattern: the first occurrence
ReplaceFirst(s, pat, repl) ==
    IF ~Includes(s, pat) THEN s
    ELSE LET i == CHOOSE k \in 1..Len(s) : StartsAt(s, k, pat) /\ \A j \in 1..(k - 1) : ~StartsAt(s, j, pat)
         IN  SubSeq(s, 1, i - 1) \o repl \o From(s, i + Len(pat))

replacePlaceholders(line, ctx, seed) ==
    IF Len(ctx.buzzwords) >= 2
    THEN ReplaceFirst(ReplaceFirst(line, "{BW1}", ctx.buzzwords[1]), "{BW2}", ctx.buzzwords[2])
    ELSE IF Len(ctx.buzzwords) = 1
    THEN ReplaceFirst(ReplaceFirst(line, "{BW1}", ctx.buzzwords[1]), "{BW2}", "synergy")
    ELSE ReplaceFirst(ReplaceFirst(line, "{BW1}", "dynamic"), "{BW2}", "synergy")


(***************************************************************************)
(* roaster: generateRoast.  roastWith is its body after the context and    *)
(* the seed are computed.                                                  *)
(***************************************************************************)
RoastLevels == {"light", "medium", "spicy"}

\* the filter without the test of the level
eligibleAtAnyLevel(ctx, levelNum) == SelectSeq(TEMPLATES, LAMBDA t : Trigger(t.trigger, ctx))

\* TEMPLATES.filter((t) => LEVEL_ORDER[t.minLevel] <= levelNum && t.trigger(ctx))
eligible(ctx, levelNum) ==
    SelectSeq(TEMPLATES, LAMBDA t : LEVEL_ORDER[t.minLevel] <= levelNum /\ Trigger(t.trigger, ctx))

overallTemplates(ctx, levelNum) ==
    SelectSeq(eligible(ctx, levelNum), LAMBDA t : t.category = "overall")

triggeredTemplates(ctx, levelNum) ==
    SelectSeq(eligible(ctx, levelNum), LAMBDA t : t.category # "overall" /\ t.category # "finisher")

finisherTemplates(ctx, levelNum) ==
    SelectSeq(eligible(ctx, levelNum), LAMBDA t : t.category = "finisher")

\* the elements of a sequence
Range(seq) == {seq[k] : k \in 1..Len(seq)}

\* phase 1 with a line of each of the first three shuffled overall templates
overallPhaseOfThree(ctx, seed, levelNum) ==
    WithValue(seededShuffle(overallTemplates(ctx, levelNum), seed),
              LAMBDA shuffledOverall :
                [k \in 1..Min(3, Len(shuffledOverall)) |->
                    replacePlaceholders(seededPick(shuffledOverall[k].lines, NumAdd(seed, (k - 1) * 7)),
                                        ctx, NumAdd(seed, k - 1))])

\* phase 1: one line of each of the first two shuffled overall templates
overallPhase(ctx, seed, levelNum) ==
    WithValue(seededShuffle(overallTemplates(ctx, levelNum), seed),
              LAMBDA shuffledOverall :
                [k \in 1..Min(2, Len(shuffledOverall)) |->
                    replacePlaceholders(seededPick(shuffledOverall[k].lines, NumAdd(seed, (k - 1) * 7)),
                                        ctx, NumAdd(seed, k - 1))])

\* the cap of phase 2 at 3 lines instead of 12
capReachedEarly(roastLines) == Len(roastLines) >= 3

\* if (roastLines.length >= 12) break
capReached(roastLines) == Len(roastLines) >= 12

RECURSIVE triggeredPhase(_, _, _, _, _, _)
\* phase 2: the loop over the shuffled triggered templates from index k on, one line
\* for each category not used yet
triggeredPhase(shuffledTriggered, k, roastLines, usedCategories, ctx, seed) ==
    IF k > Len(shuffledTriggered) \/ capReached(roastLines) THEN roastLines
    ELSE IF shuffledTriggered[k].category \in usedCategories
    THEN triggeredPhase(shuffledTriggered, k + 1, roastLines, usedCategories, ctx, seed)
    ELSE WithValue(Append(roastLines,
                          replacePlaceholders(seededPick(shuffledTriggered[k].lines,
                                                         NumAdd(seed, Len(roastLines) * 13)),
                                              ctx, NumAdd(seed, Len(roastLines)))),
                   LAMBDA lines :
                     triggeredPhase(shuffledTriggered, k + 1, lines,
                                    usedCategories \cup {shuffledTriggered[k].category}, ctx, seed))

\* the line one round of phase 3 makes: a line of a picked template, its
\* placeholders replaced
fillLine(triggered, roastLines, ctx, seed) ==
    replacePlaceholders(
        seededPick(seededPick(triggered, NumAdd(seed, Len(roastLines) * 19)).lines,
                   NumAdd(seed, Len(roastLines) * 23)),
        ctx, NumAdd(seed, Len(roastLines)))

RECURSIVE fillPhaseKeepingDuplicates(_, _, _, _)
\* phase 3 without the test for a line that comes a second time
fillPhaseKeepingDuplicates(triggered, roastLines, ctx, seed) ==
    IF ~(Len(roastLines) < 10 /\ Len(triggered) > 0) THEN roastLines
    ELSE fillPhaseKeepingDuplicates(triggered,
                                    Append(roastLines, fillLine(triggered, roastLines, ctx, seed)),
                                    ctx, seed)

RECURSIVE fillPhase(_, _, _, _)
\* phase 3: lines of picked triggered templates until there are 10 lines or a line
\* comes a second time
fillPhase(triggered, roastLines, ctx, seed) ==
    IF ~(Len(roastLines) < 10 /\ Len(triggered) > 0) THEN roastLines
    ELSE WithValue(fillLine(triggered, roastLines, ctx, seed),
                   LAMBDA replaced :
                     IF replaced \notin Range(roastLines)
                     THEN fillPhase(triggered, Append(roastLines, replaced), ctx, seed)
                     ELSE roastLines)

RECURSIVE finisherPhase(_, _, _, _, _)
\* phase 4: one line of each of the first two shuffled finisher templates, i counted
\* from 0
finisherPhase(shuffledFinishers, i, roastLines, ctx, seed) ==
    IF ~(i < Min(2, Len(shuffledFinishers))) \/ Len(roastLines) >= 14 THEN roastLines
    ELSE WithValue(Append(roastLines,
                          replacePlaceholders(seededPick(shuffledFinishers[i + 1].lines,
                                                         NumAdd(seed, 300 + i)),
                                              ctx, NumAdd(seed, 300 + i))),
                   LAMBDA lines : finisherPhase(shuffledFinishers, i + 1, lines, ctx, seed))

\* the lines after each of the four phases
phaseLines(ctx, seed, levelNum) ==
    WithValue(triggeredTemplates(ctx, levelNum), LAMBDA triggered :
    WithValue(overallPhase(ctx, seed, levelNum), LAMBDA p1 :
    WithValue(triggeredPhase(seededShuffle(triggered, NumAdd(seed, 100)), 1, p1, {}, ctx, seed), LAMBDA p2 :
    WithValue(fillPhase(triggered, p2, ctx, seed), LAMBDA p3 :
        <<p1, p2, p3,
          finisherPhase(seededShuffle(finisherTemplates(ctx, levelNum), NumAdd(seed, 200)),
                        0, p3, ctx, seed)>>))))

\* (seed % Math.max(1, Math.min(roastLines.length - 2, 8))) + 1
bestIdx(roastLines, seed) == NumMod(seed, Max(1, Min(Len(roastLines) - 2, 8))) + 1

\* the best line with bestIdx read as counted from 1 and without the fallback to the
\* first line
bestLineShifted(roastLines, seed) ==
    IF bestIdx(roastLines, seed) + 2 <= Len(roastLines)
    THEN roastLines[bestIdx(roastLines, seed) + 2]
    ELSE "Your resume needs work."

\* roastLines[bestIdx] || roastLines[0] || "Your resume needs work."
bestLine(roastLines, seed) ==
    LET i == bestIdx(roastLines, seed)
    IN  IF i + 1 <= Len(roastLines) /\ roastLines[i + 1] # "" THEN roastLines[i + 1]
        ELSE IF Len(roastLines) >= 1 /\ roastLines[1] # "" THEN roastLines[1]
        ELSE "Your resume needs work."

titles ==
    [ light |-> <<"A Gentle Flame", "Lightly Toasted", "The Warm-Up Act">>,
      medium |-> <<"Medium Rare Reality Check", "The Heat Is On", "No Mercy, Some Restraint">>,
      spicy |-> <<"Absolute Inferno", "Career Cremation", "The Full Scorched Earth">> ]

allRedemptions ==
    << "Add 3-5 quantified metrics to your strongest bullet points",
       "Create a projects section with links to actual work you've shipped",
       "Replace every 'responsible for' with a strong action verb + measurable result",
       "Add your GitHub/portfolio link - show, don't just tell",
       "Cut the buzzwords and replace with specific technologies and outcomes",
       "Trim your resume to one page with only your strongest achievements",
       "Write a 2-3 sentence summary that positions you clearly for your target role",
       "Rewrite your weakest bullets using the format: Verb + What + Tech + Result" >>

boundaries ==
    << "This roast targets your resume's writing and content, not you as a person.",
       "Strong language is used for comedic effect only.",
       "No personal attacks, slurs, or discriminatory content." >>

\* the value generateRoast returns once it has its roastLines
roastResult(roastLines, seed, roastLevel) ==
    [ title |-> seededPick(titles[roastLevel], seed),
      roastLines |-> roastLines,
      bestLine |-> bestLine(roastLines, seed),
      redemption |-> SubSeq(seededShuffle(allRedemptions, NumAdd(seed, 500)), 1, 3),
      boundaries |-> boundaries ]

roastWith(ctx, seed, roastLevel) ==
    WithValue(phaseLines(ctx, seed, LEVEL_ORDER[roastLevel])[4],
              LAMBDA roastLines : roastResult(roastLines, seed, roastLevel))


(***************************************************************************)
(* improver: the priority fixes of generateImprovements                    *)
(***************************************************************************)
\* what generateImprovements computes of the text before it builds the fixes
improveFeatures(text) ==
    LET lower == toLowerCase(text)
    IN  [ bullets |-> extractBullets(text),
          buzzResult |-> detectBuzzwords(text),
          vague |-> detectVaguePhrases(text),
          tech |-> detectTechStack(text),
          wordCount |-> CountWords(text),
          metricCount |-> CountPatterns(metricPatterns, text, 1),
          linkCount |-> CountPatterns(<<"url">>, text, 1),
          hasSummary |-> TestAnyWord(lower, <<"summary", "objective", "profile", "about">>),
          hasProjects |-> TestAnyWord(lower, <<"projects", "personal projects", "side projects", "portfolio">>),
          hasSkills |-> TestAnyWord(lower, <<"skills", "technical skills", "technologies">>) ]

\* found.slice(0, 3).join(", ")
joinFirstThree(found) ==
    LET n == Min(3, Len(found))
    IN  ConcatRange([k \in 1..n |-> IF k = 1 THEN found[k] ELSE ", " \o found[k]], 1, n)

\* the fix pushed when cond holds, none otherwise
FixIf(cond, fix) == IF cond THEN <<fix>> ELSE <<>>

genericFix ==
    "Review each bullet for the pattern: [Action Verb] + [What You Did] + [Technology Used] + [Measurable Result]. Rewrite any that don't match."

\* the fixes pushed by the conditions, in the order of the source
conditionFixes(c) ==
    (IF c.metricCount = 0
     THEN <<"Add quantified metrics to every bullet point. Use numbers like percentages, dollar amounts, time saved, users impacted. Even estimates with (~X%) are better than nothing.">>
     ELSE FixIf(c.metricCount < 3,
                "You have a few metrics, but aim for at least one quantified result per role. Replace vague claims with specific numbers."))
    \o (IF Len(c.vague) > 0
        THEN <<"Replace vague phrases like \"" \o c.vague[1]
               \o "\" with specific action verbs followed by measurable outcomes. Use verbs like \"Engineered,\" \"Delivered,\" or \"Optimized.\"">>
        ELSE <<>>)
    \o FixIf(~c.hasSummary,
             "Add a professional summary section (2-3 sentences) at the top that positions you for your target role and highlights your strongest differentiators.")
    \o FixIf(~c.hasProjects,
             "Add a Projects section showcasing 2-3 things you've built, with tech stack, what you did, and a link if possible. This proves you ship.")
    \o FixIf(c.linkCount = 0,
             "Add links to your GitHub, portfolio, or LinkedIn profile. Recruiters want to see evidence of your work online.")
    \o (IF c.buzzResult.hits > 3
        THEN <<"Cut the buzzwords (" \o joinFirstThree(c.buzzResult.found)
               \o "). Replace each with a concrete example of what you actually did.">>
        ELSE <<>>)
    \o FixIf(c.wordCount > 1000,
             "Your resume is too long. Cut it to one page by removing the weakest bullets and keeping only your top achievements per role.")
    \o FixIf(~c.hasSkills,
             "Add a dedicated Skills/Technologies section grouped by category (Languages, Frameworks, Tools, Cloud, etc.).")
    \o FixIf(Len(c.tech) < 3,
             "Name specific technologies throughout your bullets instead of being vague. 'Built a REST API' becomes 'Built a REST API using Node.js, Express, and PostgreSQL.'")

\* the generic reminder pushed once instead of in a loop
padOnce(priorityFixes) ==
    IF Len(priorityFixes) < 3 THEN Append(priorityFixes, genericFix) ELSE priorityFixes

RECURSIVE padFixes(_)
\* while (priorityFixes.length < 3) priorityFixes.push(the generic reminder)
padFixes(priorityFixes) ==
    IF Len(priorityFixes) < 3 THEN padFixes(Append(priorityFixes, genericFix)) ELSE priorityFixes

\* priorityFixes.slice(0, 7)
sliceFixes(priorityFixes) == SubSeq(priorityFixes, 1, Min(7, Len(priorityFixes)))

\* the priorityFixes of the response
priorityFixesWith(c) == sliceFixes(padFixes(conditionFixes(c)))

generateImprovements(text) == [priorityFixes |-> priorityFixesWith(improveFeatures(text))]


(***************************************************************************)
(* The state.  The generators keep no state of their own between calls:    *)
(* the variables hold the calls made to them and what they returned.       *)
(***************************************************************************)
VARIABLES
    pending,      \* the call that has been made and has not returned, or NoCall
    result,       \* the call that returned last and its value, or NoCall
    firstRoast,   \* the first call of generateRoast that returned, or NoCall
    calls,        \* the number of calls that have returned
    feat,         \* the features of the resume that scoreResume is given
    report,       \* the value scoreResume returned for feat, or NoCall
    prevReport,   \* the value scoreResume returned before feat got more metrics, or NoCall
    ctx,          \* the context that roastWith is given
    seed,         \* the seed that roastWith is given
    level,        \* the intensity that roastWith is given
    phases,       \* the lines roastWith had after each of its four phases (empty before the call)
    roast,        \* the value roastWith returned, or NoCall
    improveInput, \* the features that priorityFixesWith is given
    fixes,        \* the value priorityFixesWith returned (empty before the call)
    store,        \* the entries of the rate limiter, by key
    now,          \* Date.now(), in milliseconds since the server started
    response,     \* what rateLimit did with the last request, or NoCall
    window,       \* by key, the window the key is in: its end, the requests that arrived and passed
    admittedAt,   \* by key, the arrival times of the requests passed on within the last hour
    arrivals,     \* the number of requests that have arrived
    resumeText,   \* the page: the text in the resume box
    shownAnalysis,     \* the page: the analysis on display, or Null
    shownRoast,        \* the page: the roast on display, or Null
    shownImprovements, \* the page: the improvement plan on display, or Null
    chosenLevel,       \* the page: the heat level chosen
    roastConsent,      \* the page: whether the consent box is checked
    analyzeMutation,   \* the page: the state of the request to /api/analyze
    roastMutation,     \* the page: the state of the request to /api/roast
    improveMutation,   \* the page: the state of the request to /api/improve
    segInput,     \* the lines of the text extractSections is given
    segmented,    \* the mapping extractSections returned, or NoCall
    doc,          \* the lines of the resume that is analysed and then gets one more bullet
    docFeat,      \* the features of doc, or NoCall
    shortFeat,    \* the features doc had before the bullet was appended, or NoCall
    bulletInput,  \* the lines of the text extractBullets is given
    bulletsOut,   \* the bullets extractBullets returned, or NoCall
    rawPieces,    \* the pieces of the text cleanText is given
    cleaned,      \* the text cleanText returned, or NoCall
    fillLines,    \* roastLines while generateRoast is in its third and fourth phase
    fillPc,       \* where generateRoast is: "fill", "finishers" or "done"
    picks,        \* the lines the seeded picks of the call yield, or NoCall
    served        \* what an endpoint did with the last request, or NoCall

vars == <<pending, result, firstRoast, calls, feat, report, prevReport,
          ctx, seed, level, phases, roast, improveInput, fixes,
          store, now, response, window, admittedAt, arrivals,
          resumeText, shownAnalysis, shownRoast, shownImprovements, chosenLevel, roastConsent,
          analyzeMutation, roastMutation, improveMutation,
          segInput, segmented, doc, docFeat, shortFeat,
          bulletInput, bulletsOut, rawPieces, cleaned, fillLines, fillPc, picks, served>>

callVars == <<pending, result, firstRoast, calls>>

scoreVars == <<feat, report, prevReport>>

roastVars == <<ctx, seed, level, phases, roast>>

improveVars == <<improveInput, fixes>>

limitVars == <<store, now, response, window, admittedAt, arrivals>>

pageVars == <<resumeText, shownAnalysis, shownRoast, shownImprovements, chosenLevel, roastConsent,
              analyzeMutation, roastMutation, improveMutation>>

segmentVars == <<segInput, segmented>>

appendVars == <<doc, docFeat, shortFeat>>

bulletVars == <<bulletInput, bulletsOut>>

cleanVars == <<rawPieces, cleaned>>

fillVars == <<fillLines, fillPc, picks>>

routeVars == <<served>>

NoCall == [fn |-> "none"]

(***************************************************************************)
(* Calls of the three generators on texts                                  *)
(***************************************************************************)
\* the number of calls a behaviour makes
MaxCalls == 3

FourLineText == "Experience\nResponsible for various tasks.\nEducation\nState University"

BlankText == "   \n\t  \n "

StrongText ==
    "Summary\nEngineer, 5 years.\nSkills\nPython, React, Docker\nProjects\n- Grew revenue 20% for 1,200 users\n- Cut costs by $4,000, now 3x faster\nhttps://github.com/me"

BuzzText ==
    "Dynamic, passionate team player and proactive self-starter.\n* Responsible for synergy\n* Worked on 2 things"

\* the texts the generators are called on
Texts == {FourLineText, BlankText, StrongText, BuzzText}

\* generateRoast with a seed that moves with the calls made so far
generateRoastCounted(text, roastLevel) ==
    WithValue(buildContext(text), LAMBDA context :
    WithValue(NumAdd(simpleHash(text), calls), LAMBDA hash : roastWith(context, hash, roastLevel)))

\* generateRoast with a generator that goes on from where an earlier roast left it
generateRoastSeedKept(text, roastLevel) ==
    WithValue(buildContext(text), LAMBDA context :
    WithValue(NumAdd(simpleHash(text), Bonus(firstRoast # NoCall, 1)),
              LAMBDA hash : roastWith(context, hash, roastLevel)))

generateRoast(text, roastLevel) ==
    WithValue(buildContext(text), LAMBDA context :
    WithValue(simpleHash(text), LAMBDA hash : roastWith(context, hash, roastLevel)))

CallAnalyze(text) ==
    /\ pending = NoCall
    /\ calls < MaxCalls
    /\ pending' = [fn |-> "analyze", text |-> text]
    /\ result' = NoCall
    /\ UNCHANGED <<firstRoast, calls, scoreVars, roastVars, improveVars,
                 limitVars, pageVars, segmentVars, appendVars,
                 bulletVars, cleanVars, fillVars, routeVars>>

CallRoast(text, roastLevel) ==
    /\ pending = NoCall
    /\ calls < MaxCalls
    /\ pending' = [fn |-> "roast", text |-> text, level |-> roastLevel]
    /\ result' = NoCall
    /\ UNCHANGED <<firstRoast, calls, scoreVars, roastVars, improveVars,
                 limitVars, pageVars, segmentVars, appendVars,
                 bulletVars, cleanVars, fillVars, routeVars>>

CallImprove(text) ==
    /\ pending = NoCall
    /\ calls < MaxCalls
    /\ pending' = [fn |-> "improve", text |-> text]
    /\ result' = NoCall
    /\ UNCHANGED <<firstRoast, calls, scoreVars, roastVars, improveVars,
                 limitVars, pageVars, segmentVars, appendVars,
                 bulletVars, cleanVars, fillVars, routeVars>>

ReturnAnalyze ==
    /\ pending.fn = "analyze"
    /\ result' = [fn |-> "analyze", text |-> pending.text, value |-> analyzeResume(pending.text)]
    /\ pending' = NoCall
    /\ calls' = calls + 1
    /\ UNCHANGED <<firstRoast, scoreVars, roastVars, improveVars,
                 limitVars, pageVars, segmentVars, appendVars,
                 bulletVars, cleanVars, fillVars, routeVars>>

ReturnRoast ==
    /\ pending.fn = "roast"
    /\ result' = [fn |-> "roast", text |-> pending.text, level |-> pending.level,
                  value |-> generateRoast(pending.text, pending.level)]
    /\ pending' = NoCall
    /\ calls' = calls + 1
    /\ firstRoast' = IF firstRoast = NoCall
                     THEN [fn |-> "roast", text |-> pending.text, level |-> pending.level,
                           value |-> result'.value, at |-> calls']
                     ELSE firstRoast
    /\ UNCHANGED <<scoreVars, roastVars, improveVars,
                 limitVars, pageVars, segmentVars, appendVars,
                 bulletVars, cleanVars, fillVars, routeVars>>

ReturnImprove ==
    /\ pending.fn = "improve"
    /\ result' = [fn |-> "improve", text |-> pending.text, value |-> generateImprovements(pending.text)]
    /\ pending' = NoCall
    /\ calls' = calls + 1
    /\ UNCHANGED <<firstRoast, scoreVars, roastVars, improveVars,
                 limitVars, pageVars, segmentVars, appendVars,
                 bulletVars, cleanVars, fillVars, routeVars>>

\* the values of the variables a specification does not use
IdleCalls == pending = NoCall /\ result = NoCall /\ firstRoast = NoCall /\ calls = 0

IdleScore == feat = NoCall /\ report = NoCall /\ prevReport = NoCall

IdleRoast == ctx = NoCall /\ seed = Num(0) /\ level = "light" /\ phases = <<>> /\ roast = NoCall

IdleImprove == improveInput = NoCall /\ fixes = <<>>

\* null
Null == [fn |-> "null"]

\* useMutation before mutate is called
IdleMutation == [status |-> "idle"]

IdleLimit ==
    /\ store = <<>> /\ now = 0 /\ response = NoCall /\ window = <<>> /\ admittedAt = <<>>
    /\ arrivals = 0

IdlePage ==
    /\ resumeText = "" /\ shownAnalysis = Null /\ shownRoast = Null /\ shownImprovements = Null
    /\ chosenLevel = "spicy" /\ roastConsent = FALSE
    /\ analyzeMutation = IdleMutation /\ roastMutation = IdleMutation /\ improveMutation = IdleMutation

IdleSegment == segInput = <<>> /\ segmented = NoCall

IdleAppend == doc = <<>> /\ docFeat = NoCall /\ shortFeat = NoCall

IdleBullets == bulletInput = <<>> /\ bulletsOut = NoCall

IdleClean == rawPieces = <<>> /\ cleaned = NoCall

IdleFill == fillLines = <<>> /\ fillPc = "done" /\ picks = NoCall

IdleRoutes == served = NoCall

Init == IdleCalls /\ IdleScore /\ IdleRoast /\ IdleImprove
        /\ IdleLimit /\ IdlePage /\ IdleSegment /\ IdleAppend
        /\ IdleBullets /\ IdleClean /\ IdleFill /\ IdleRoutes

Next ==
    \/ \E text \in Texts : CallAnalyze(text)
    \/ \E text \in Texts, roastLevel \in RoastLevels : CallRoast(text, roastLevel)
    \/ \E text \in Texts : CallImprove(text)
    \/ ReturnAnalyze
    \/ ReturnRoast
    \/ ReturnImprove

Spec == Init /\ [][Next]_vars

(***************************************************************************)
(* scoreResume on feature records.  The features are drawn from a set of   *)
(* records a text can have; a later analysis is of a resume that differs   *)
(* from the one before in its metric count only.                           *)
(***************************************************************************)
\* the largest metric count of a resume
MaxMetrics == 7

\* hasRoutineRoleSignals, hasOwnershipSignals, vaguePhrases, impactVerbs
RoleProfiles ==
    { <<FALSE, FALSE, 0, 0>>, <<TRUE, FALSE, 4, 4>>, <<FALSE, TRUE, 3, 8>>,
      <<TRUE, TRUE, 0, 6>>, <<TRUE, FALSE, 3, 0>>, <<FALSE, TRUE, 3, 0>> }

\* bulletCount, longBullets, shortBullets
BulletProfiles == { <<0, 0, 0>>, <<3, 0, 1>>, <<4, 0, 3>>, <<9, 4, 5>>, <<12, 1, 0>> }

\* hasExperience, hasSkills, hasEducation, hasSummary, buzzwordHits
ClarityProfiles ==
    { <<FALSE, FALSE, FALSE, FALSE, 17>>, <<TRUE, FALSE, TRUE, FALSE, 9>>,
      <<TRUE, TRUE, TRUE, TRUE, 0>>, <<TRUE, TRUE, FALSE, FALSE, 0>> }

\* techStack, scaleWords, hasCertifications, hasAdaptabilitySignals
DepthProfiles ==
    { <<0, 0, FALSE, FALSE>>, <<6, 1, FALSE, TRUE>>, <<12, 4, TRUE, TRUE>>, <<3, 0, TRUE, FALSE>> }

\* hasGitHubLink, hasWebsiteLink, hasProjects, hasShippingVerbs, linkCount
PortfolioProfiles ==
    { <<FALSE, FALSE, FALSE, FALSE, 0>>, <<TRUE, FALSE, TRUE, FALSE, 1>>,
      <<TRUE, TRUE, TRUE, TRUE, 3>> }

\* the features of a text without a word
BlankFeatures ==
    [ wordCount |-> 0, bulletCount |-> 0, metricCount |-> 0, linkCount |-> 0, buzzwordHits |-> 0,
      techStack |-> 0, scaleWords |-> 0, vaguePhrases |-> 0, impactVerbs |-> 0, longBullets |-> 0,
      shortBullets |-> 0, hasExperience |-> FALSE, hasProjects |-> FALSE, hasSkills |-> FALSE,
      hasEducation |-> FALSE, hasSummary |-> FALSE, hasCertifications |-> FALSE,
      hasShippingVerbs |-> FALSE, hasGitHubLink |-> FALSE, hasWebsiteLink |-> FALSE,
      hasRoutineRoleSignals |-> FALSE, hasOwnershipSignals |-> FALSE,
      hasAdaptabilitySignals |-> FALSE ]

\* the feature records the resumes start from, each of a text of 400 words
FeatureSet ==
    {BlankFeatures} \cup
    { [ wordCount |-> 400, bulletCount |-> b[1], metricCount |-> m, linkCount |-> p[5],
        buzzwordHits |-> c[5], techStack |-> d[1], scaleWords |-> d[2], vaguePhrases |-> r[3],
        impactVerbs |-> r[4], longBullets |-> b[2], shortBullets |-> b[3],
        hasExperience |-> c[1], hasProjects |-> p[3], hasSkills |-> c[2], hasEducation |-> c[3],
        hasSummary |-> c[4], hasCertifications |-> d[3], hasShippingVerbs |-> p[4],
        hasGitHubLink |-> p[1], hasWebsiteLink |-> p[2], hasRoutineRoleSignals |-> r[1],
        hasOwnershipSignals |-> r[2], hasAdaptabilitySignals |-> d[4] ] :
      r \in RoleProfiles, b \in BulletProfiles, c \in ClarityProfiles, d \in DepthProfiles,
      p \in PortfolioProfiles, m \in {0, 2} }

\* the analysis of the resume
Analyze ==
    /\ report = NoCall
    /\ report' = scoreResume(feat)
    /\ UNCHANGED <<feat, prevReport, callVars, roastVars, improveVars,
                 limitVars, pageVars, segmentVars, appendVars,
                 bulletVars, cleanVars, fillVars, routeVars>>

\* the analysis of a resume that has n more metrics and is the same otherwise
AddMetrics(n) ==
    /\ report # NoCall
    /\ feat.metricCount + n <= MaxMetrics
    /\ feat' = [feat EXCEPT !.metricCount = @ + n]
    /\ prevReport' = report
    /\ report' = scoreResume(feat')
    /\ UNCHANGED <<callVars, roastVars, improveVars,
                 limitVars, pageVars, segmentVars, appendVars,
                 bulletVars, cleanVars, fillVars, routeVars>>

InitScore ==
    /\ feat \in FeatureSet
    /\ report = NoCall
    /\ prevReport = NoCall
    /\ IdleCalls /\ IdleRoast /\ IdleImprove
    /\ IdleLimit /\ IdlePage /\ IdleSegment /\ IdleAppend
    /\ IdleBullets /\ IdleClean /\ IdleFill /\ IdleRoutes

NextScore == Analyze \/ \E n \in 1..MaxMetrics : AddMetrics(n)

SpecScore == InitScore /\ [][NextScore]_vars

(***************************************************************************)
(* roastWith on contexts, seeds and intensities                            *)
(***************************************************************************)
\* buzzwords (buzzwordCount is their number)
BuzzwordLists == { <<>>, <<"synergy">>, <<"dynamic", "passionate", "team player", "proactive">> }

\* the contexts roastWith is given: with every trigger of TEMPLATES on either side
Contexts ==
    { [ wordCount |-> w, bulletCount |-> b, metricCount |-> m, linkCount |-> l,
        buzzwordCount |-> Len(bw), buzzwords |-> bw, vaguePhrases |-> v, techStack |-> t,
        hasProjects |-> pr, hasExperience |-> TRUE, hasSkills |-> TRUE, hasSummary |-> su,
        hasEducation |-> TRUE ] :
      w \in {30, 100, 201, 1001}, b \in {4, 5}, m \in {0, 1}, l \in {0, 1},
      bw \in BuzzwordLists, v \in {<<>>, <<"responsible for">>},
      t \in {<<"python", "react">>, <<"python", "react", "docker">>},
      pr \in BOOLEAN, su \in BOOLEAN }

\* the seeds: the least hash, the hash of a text, the greatest hash (2^31)
Seeds == {Num(0), simpleHash(FourLineText), [hi |-> 32768, lo |-> 0]}

\* the body of generateRoast: the four phases, then the value returned for their
\* lines (roastWith, with the lines after each phase kept)
Roast ==
    /\ roast = NoCall
    /\ phases' = phaseLines(ctx, seed, LEVEL_ORDER[level])
    /\ roast' = roastResult(phases'[4], seed, level)
    /\ UNCHANGED <<ctx, seed, level, callVars, scoreVars, improveVars,
                 limitVars, pageVars, segmentVars, appendVars,
                 bulletVars, cleanVars, fillVars, routeVars>>

InitRoast ==
    /\ ctx \in Contexts
    /\ seed \in Seeds
    /\ level \in RoastLevels
    /\ phases = <<>>
    /\ roast = NoCall
    /\ IdleCalls /\ IdleScore /\ IdleImprove
    /\ IdleLimit /\ IdlePage /\ IdleSegment /\ IdleAppend
    /\ IdleBullets /\ IdleClean /\ IdleFill /\ IdleRoutes

NextRoast == Roast

SpecRoast == InitRoast /\ [][NextRoast]_vars

(***************************************************************************)
(* The priority fixes of generateImprovements on what it computes of the   *)
(* text                                                                    *)
(***************************************************************************)
\* what generateImprovements can compute of a text: with every condition of the
\* fixes on either side
ImproveInputs ==
    { [ bullets |-> <<>>, buzzResult |-> [hits |-> Len(bw), found |-> bw], vague |-> v,
        tech |-> t, wordCount |-> w, metricCount |-> m, linkCount |-> l, hasSummary |-> su,
        hasProjects |-> pr, hasSkills |-> sk ] :
      bw \in BuzzwordLists, v \in {<<>>, <<"responsible for">>},
      t \in {<<"python", "react">>, <<"python", "react", "docker">>},
      w \in {400, 1001}, m \in {0, 2, 3}, l \in {0, 1},
      su \in BOOLEAN, pr \in BOOLEAN, sk \in BOOLEAN }

\* the priority fixes of generateImprovements
Improve ==
    /\ fixes = <<>>
    /\ fixes' = priorityFixesWith(improveInput)
    /\ UNCHANGED <<improveInput, callVars, scoreVars, roastVars,
                 limitVars, pageVars, segmentVars, appendVars,
                 bulletVars, cleanVars, fillVars, routeVars>>

InitImprove ==
    /\ improveInput \in ImproveInputs
    /\ fixes = <<>>
    /\ IdleCalls /\ IdleScore /\ IdleRoast
    /\ IdleLimit /\ IdlePage /\ IdleSegment /\ IdleAppend
    /\ IdleBullets /\ IdleClean /\ IdleFill /\ IdleRoutes

NextImprove == Improve

SpecImprove == InitImprove /\ [][NextImprove]_vars

C2_ScoreBounds ==
    report # NoCall =>
        /\ Len(report.breakdown) = 6
        /\ \A k \in 1..6 : report.breakdown[k] \in 0..100
        /\ report.score \in 1..10

\* a report whose Clarity score was clamped at its lower end (40 points and eight a
\* section cannot add up to exactly 0 otherwise)
C2_Witness == report # NoCall /\ report.breakdown[5] = 100 /\ presentSections(feat) = 0

\* C3: the reported score is 11 - clamp(ceil(W / 10), 1, 10), W the weighted sum of
\* the six category scores with the weights 0.20, 0.25, 0.15, 0.15, 0.15, 0.10, and
\* the label is High Risk for a score <= 3, Medium Risk for 4..6, Low Risk otherwise.
\* Proof of Impact is the fraction proofNum / proofDen, so W is compared as
\* W * 100 * proofDen.
C3_FinalScoreRule ==
    report # NoCall =>
        LET den == proofDen(feat)
            w == 20 * roleSusceptibility(feat) * den + 25 * proofNum(feat)
                 + 15 * differentiation(feat) * den + 15 * portfolioSignals(feat) * den
                 + 15 * clarity(feat) * den + 10 * adaptability(feat) * den
            unit == 1000 * den
            ceiling == CHOOSE c \in 0..11 : (c - 1) * unit < w /\ w <= c * unit
            risk == IF ceiling < 1 THEN 1 ELSE IF ceiling > 10 THEN 10 ELSE ceiling
        IN  /\ report.score = 11 - risk
            /\ report.label = (IF report.score <= 3 THEN "High Risk"
                               ELSE IF report.score \in 4..6 THEN "Medium Risk"
                               ELSE "Low Risk")

\* a report at the upper end of the High Risk band
C3_Witness == report # NoCall /\ report.score = 3 /\ report.label = "High Risk"

\* C4: a resume that has more metrics than another and is the same otherwise never
\* gets a lower final score.
C4_MoreMetricsNotLower ==
    (report # NoCall /\ prevReport # NoCall) => report.score >= prevReport.score

\* C5: for the four-line text analyzeResume returns a final score of at most 3 with
\* the label High Risk.
C5_FourLineHighRisk ==
    (result.fn = "analyze" /\ result.text = FourLineText)
    => (result.value.score <= 3 /\ result.value.label = "High Risk")

\* C6: for a text of whitespace only analyzeResume returns word, bullet, metric and
\* link counts of 0 and the most pessimistic final score: the lowest score, 1, with
\* the worst label, High Risk.
C6_BlankMostPessimistic ==
    (result.fn = "analyze" /\ result.text = BlankText)
    => /\ result.value.detected.wordCount = 0
       /\ result.value.detected.bulletCount = 0
       /\ result.value.detected.metricCount = 0
       /\ result.value.detected.linkCount = 0
       /\ result.value.score = 1
       /\ result.value.label = "High Risk"

\* C7: the bestLine generateRoast returns is one of the roastLines it returns, and
\* is never the fallback "Your resume needs work.".
C7_BestLineMember ==
    roast # NoCall =>
        /\ roast.bestLine \in Range(roast.roastLines)
        /\ roast.bestLine # "Your resume needs work."

\* the shortest roast there is: two lines, the best line the second (the index
\* seed % max(1, length - 2) + 1 is at its least divisor)
C7_Witness ==
    roast # NoCall /\ Len(roast.roastLines) = 2 /\ roast.bestLine = roast.roastLines[2]

\* the lines of the templates of category no_metrics
NoMetricsLines ==
    UNION {Range(TEMPLATES[k].lines) : k \in {j \in 1..Len(TEMPLATES) : TEMPLATES[j].category = "no_metrics"}}

\* C8: when the text has no percentage, dollar-amount or multiplier pattern (the
\* context's metricCount is 0), the roastLines hold a line of a template of category
\* no_metrics at every intensity, and already after the per-category phase: its cap
\* of 12 lines never skips the category.
C8_NoMetricsLine ==
    (roast # NoCall /\ ctx.metricCount = 0)
    => /\ Range(roast.roastLines) \cap NoMetricsLines # {}
       /\ Range(phases[2]) \cap NoMetricsLines # {}

\* a roast without metrics whose per-category phase is as long as it gets: two
\* overall lines and a line of each of nine categories
C8_Witness ==
    /\ roast # NoCall /\ ctx.metricCount = 0
    /\ Len(phases[2]) = 11
    /\ Range(roast.roastLines) \cap NoMetricsLines # {}

\* the lines of the templates whose trigger is true for ctx and whose minimum level
\* is not above level
EligibleLines ==
    UNION { Range(TEMPLATES[k].lines) :
            k \in {j \in 1..Len(TEMPLATES) :
                      /\ LEVEL_ORDER[TEMPLATES[j].minLevel] <= LEVEL_ORDER[level]
                      /\ Trigger(TEMPLATES[j].trigger, ctx)} }

\* a roast line comes from one of the lines: it is that line, or that line with its
\* placeholders replaced
ComesFrom(line, lines) ==
    line \in lines \/ \E l \in lines : replacePlaceholders(l, ctx, seed) = line

\* C9: every line of the roastLines comes, before the placeholders are replaced,
\* from a template whose trigger is true for the context and whose minimum level is
\* not above the intensity; so do the lines after each of the four phases.
C9_TemplateExclusion ==
    roast # NoCall =>
        /\ roast.roastLines = phases[4]
        /\ \A p \in 1..4 : \A line \in Range(phases[p]) : ComesFrom(line, EligibleLines)

\* a roast at the lightest intensity to which each of the four phases added a line,
\* with a template left out for its trigger
C9_Witness ==
    /\ roast # NoCall /\ level = "light"
    /\ Len(phases[1]) > 0 /\ Len(phases[2]) > Len(phases[1])
    /\ Len(phases[3]) > Len(phases[2]) /\ Len(phases[4]) > Len(phases[3])
    /\ \E k \in 1..Len(TEMPLATES) : ~Trigger(TEMPLATES[k].trigger, ctx)

\* C10: priorityFixes has at least 3 and at most 7 entries; when fewer than 3
\* conditions fire, it has exactly 3, the ones after the fired conditions being the
\* generic reminder.
C10_FixesFloorAndCap ==
    fixes # <<>> =>
        LET fired == Len(conditionFixes(improveInput))
        IN  /\ Len(fixes) >= 3 /\ Len(fixes) <= 7
            /\ fired < 3 => (Len(fixes) = 3 /\ \A k \in (fired + 1)..3 : fixes[k] = genericFix)
            /\ \A k \in 1..Len(fixes) : k <= fired => fixes[k] = conditionFixes(improveInput)[k]

\* an exemplary resume: no condition fires and the three fixes are the generic
\* reminder
C10_Witness ==
    /\ Len(fixes) = 3 /\ Len(conditionFixes(improveInput)) = 0
    /\ \A k \in 1..3 : fixes[k] = genericFix

\* C11: the metric count on which generateRoast and generateImprovements base
\* their decisions equals the metricCount analyzeResume reports for the same text.
C11_SameMetricCount ==
    (result # NoCall /\ result.fn = "analyze") =>
        /\ buildContext(result.text).metricCount = result.value.detected.metricCount
        /\ improveFeatures(result.text).metricCount = result.value.detected.metricCount

(***************************************************************************)
(* rateLimit: the limiter in front of the endpoints.  Time is Date.now()   *)
(* in milliseconds, counted from the start of the server.  window and      *)
(* admittedAt record what happened and are not read by the limiter.        *)
(***************************************************************************)
WINDOW_MS == 3600000

MAX_REQUESTS == 20

\* the requests of a behaviour
MaxArrivals == 23

\* req.ip
Ips == {"10.0.0.1"}

\* req.path
Paths == {"/api/analyze", "/api/roast"}

\* the times at which requests arrive: at the start, when an hour has passed, and a
\* millisecond later
Times == {0, WINDOW_MS, WINDOW_MS + 1}

keyOf(ip, path) == ip \o ":" \o path

\* !entry || now > entry.resetAt, at and after the reset time
expiredAtReset(entries, key, t) == key \notin DOMAIN entries \/ t >= entries[key].resetAt

\* !entry || now > entry.resetAt
expired(entries, key, t) == key \notin DOMAIN entries \/ t > entries[key].resetAt

\* the entry after a request when a request over the quota starts the hour again
countedExtending(entries, key, t) ==
    IF expired(entries, key, t)
    THEN [count |-> 1, resetAt |-> t + WINDOW_MS]
    ELSE [count |-> entries[key].count + 1,
          resetAt |-> IF entries[key].count + 1 > MAX_REQUESTS THEN t + WINDOW_MS
                      ELSE entries[key].resetAt]

\* the entry of the key after it has been looked up, replaced if expired, and counted
counted(entries, key, t) ==
    IF expired(entries, key, t)
    THEN [count |-> 1, resetAt |-> t + WINDOW_MS]
    ELSE [count |-> entries[key].count + 1, resetAt |-> entries[key].resetAt]

\* entry.count >= MAX_REQUESTS
atQuota(entry) == entry.count >= MAX_REQUESTS

\* entry.count > MAX_REQUESTS
overQuota(entry) == entry.count > MAX_REQUESTS

\* what rateLimit does with the request: status 429 and retryAfter, or next()
answer(key, entry, t) ==
    IF overQuota(entry)
    THEN [key |-> key, next |-> FALSE, status |-> 429,
          retryAfter |-> CeilDiv(entry.resetAt - t, 1000)]
    ELSE [key |-> key, next |-> TRUE, status |-> 200, retryAfter |-> 0]

\* the window of the key after a request at time t: a request later than the end of the
\* window starts the next one
windowAfter(key, t, passed) ==
    IF key \in DOMAIN window /\ t <= window[key].end
    THEN [end |-> window[key].end, arrived |-> window[key].arrived + 1,
          passed |-> window[key].passed + Bonus(passed, 1)]
    ELSE [end |-> t + WINDOW_MS, arrived |-> 1, passed |-> Bonus(passed, 1)]

\* the times in the sequence that lie in the hour that ends at t
withinHour(times, t) == SelectSeq(times, LAMBDA at : at > t - WINDOW_MS)

admittedOf(key) == IF key \in DOMAIN admittedAt THEN admittedAt[key] ELSE <<>>

rateLimit(ip, path) ==
    /\ arrivals < MaxArrivals
    /\ arrivals' = arrivals + 1
    /\ store' = Put(store, keyOf(ip, path), counted(store, keyOf(ip, path), now))
    /\ response' = answer(keyOf(ip, path), store'[keyOf(ip, path)], now)
    /\ window' = Put(window, keyOf(ip, path), windowAfter(keyOf(ip, path), now, response'.next))
    /\ admittedAt' = Put(admittedAt, keyOf(ip, path),
                         IF response'.next THEN Append(admittedOf(keyOf(ip, path)), now)
                         ELSE admittedOf(keyOf(ip, path)))
    /\ UNCHANGED <<now, callVars, scoreVars, roastVars, improveVars,
                   pageVars, segmentVars, appendVars,
                 bulletVars, cleanVars, fillVars, routeVars>>

\* time passes
Tick(later) ==
    /\ later > now
    /\ now' = later
    /\ admittedAt' = [key \in DOMAIN admittedAt |-> withinHour(admittedAt[key], now')]
    /\ UNCHANGED <<store, response, window, arrivals, callVars, scoreVars, roastVars, improveVars,
                   pageVars, segmentVars, appendVars,
                 bulletVars, cleanVars, fillVars, routeVars>>

InitLimit ==
    /\ store = <<>> /\ now = 0 /\ response = NoCall /\ window = <<>> /\ admittedAt = <<>>
    /\ arrivals = 0
    /\ IdleCalls /\ IdleScore /\ IdleRoast /\ IdleImprove /\ IdlePage /\ IdleSegment /\ IdleAppend
    /\ IdleBullets /\ IdleClean /\ IdleFill /\ IdleRoutes

NextLimit ==
    \/ \E ip \in Ips, path \in Paths : rateLimit(ip, path)
    \/ \E later \in Times : Tick(later)

SpecLimit == InitLimit /\ [][NextLimit]_vars

\* C12: for each key, among the requests that arrive within one window (from the
\* request that creates or resets the entry until the entry's resetAt, inclusive)
\* exactly the first 20 are passed on to the next handler, and every later one is
\* answered with status 429 and is not passed on.
C12_FixedWindowQuota ==
    /\ \A key \in DOMAIN window :
          /\ window[key].passed = Min(window[key].arrived, 20)
          /\ key \in DOMAIN store /\ store[key].resetAt = window[key].end
    /\ response # NoCall =>
          /\ response.next = (window[response.key].arrived <= 20)
          /\ response.next = (response.status # 429)

\* the 21st and the 22nd request of a window, the second at the very end of the
\* window, after 20 were passed on; the other key was in use at the same time
C12_Witness ==
    /\ response # NoCall /\ ~response.next /\ response.status = 429
    /\ window[response.key].arrived = 22 /\ window[response.key].passed = 20
    /\ now = window[response.key].end
    /\ \E key \in DOMAIN window : key # response.key

\* C13: for each client address and endpoint, after any sequence of requests at
\* any times, no more than 20 requests are passed on within any period of one hour.
C13_HourlyLimit ==
    \A key \in DOMAIN admittedAt : Len(withinHour(admittedAt[key], now)) <= 20

PageTexts == {"Jane Doe, engineer", FourLineText, StrongText}

\* !resumeText.trim() || resumeText.trim().length < 50
tooShort(text) == Len(trim(text)) = 0 \/ Len(trim(text)) < 50

\* setResumeText(e.target.value), and setResumeText(data.text) after an extraction
SetResumeText(text) ==
    /\ text # resumeText
    /\ resumeText' = text
    /\ UNCHANGED <<shownAnalysis, shownRoast, shownImprovements, chosenLevel, roastConsent,
                   analyzeMutation, roastMutation, improveMutation,
                   callVars, scoreVars, roastVars, improveVars, limitVars, segmentVars, appendVars,
                 bulletVars, cleanVars, fillVars, routeVars>>

\* the Analyze button
ClickAnalyze ==
    /\ ~tooShort(resumeText)
    /\ analyzeMutation.status # "pending"
    /\ analyzeMutation' = [status |-> "pending", text |-> resumeText]
    /\ UNCHANGED <<resumeText, shownAnalysis, shownRoast, shownImprovements, chosenLevel,
                   roastConsent, roastMutation, improveMutation,
                   callVars, scoreVars, roastVars, improveVars, limitVars, segmentVars, appendVars,
                 bulletVars, cleanVars, fillVars, routeVars>>

\* analyzeMutation.onSuccess without setRoastConsent(false)
AnalyzeSucceedsKeepingConsent ==
    /\ analyzeMutation.status = "pending"
    /\ analyzeMutation' = [status |-> "success"]
    /\ shownAnalysis' = [fn |-> "analyze", text |-> analyzeMutation.text]
    /\ shownRoast' = Null
    /\ shownImprovements' = Null
    /\ UNCHANGED <<resumeText, chosenLevel, roastConsent, roastMutation, improveMutation,
                   callVars, scoreVars, roastVars, improveVars, limitVars, segmentVars, appendVars,
                 bulletVars, cleanVars, fillVars, routeVars>>

\* analyzeMutation.onSuccess
AnalyzeSucceeds ==
    /\ analyzeMutation.status = "pending"
    /\ analyzeMutation' = [status |-> "success"]
    /\ shownAnalysis' = [fn |-> "analyze", text |-> analyzeMutation.text]
    /\ shownRoast' = Null
    /\ shownImprovements' = Null
    /\ roastConsent' = FALSE
    /\ UNCHANGED <<resumeText, chosenLevel, roastMutation, improveMutation,
                   callVars, scoreVars, roastVars, improveVars, limitVars, segmentVars, appendVars,
                 bulletVars, cleanVars, fillVars, routeVars>>

\* analyzeMutation.onError: a toast
AnalyzeFails ==
    /\ analyzeMutation.status = "pending"
    /\ analyzeMutation' = [status |-> "error"]
    /\ UNCHANGED <<resumeText, shownAnalysis, shownRoast, shownImprovements, chosenLevel,
                   roastConsent, roastMutation, improveMutation,
                   callVars, scoreVars, roastVars, improveVars, limitVars, segmentVars, appendVars,
                 bulletVars, cleanVars, fillVars, routeVars>>

\* a heat level button; it is rendered with the analysis
SetRoastLevel(roastLevel) ==
    /\ shownAnalysis # Null
    /\ roastLevel # chosenLevel
    /\ chosenLevel' = roastLevel
    /\ UNCHANGED <<resumeText, shownAnalysis, shownRoast, shownImprovements, roastConsent,
                   analyzeMutation, roastMutation, improveMutation,
                   callVars, scoreVars, roastVars, improveVars, limitVars, segmentVars, appendVars,
                 bulletVars, cleanVars, fillVars, routeVars>>

\* the consent box; it is rendered with the analysis
SetRoastConsent(checked) ==
    /\ shownAnalysis # Null
    /\ checked # roastConsent
    /\ roastConsent' = checked
    /\ UNCHANGED <<resumeText, shownAnalysis, shownRoast, shownImprovements, chosenLevel,
                   analyzeMutation, roastMutation, improveMutation,
                   callVars, scoreVars, roastVars, improveVars, limitVars, segmentVars, appendVars,
                 bulletVars, cleanVars, fillVars, routeVars>>

\* the Roast It button; it is rendered with the analysis
ClickRoast ==
    /\ shownAnalysis # Null
    /\ roastConsent
    /\ roastMutation.status # "pending"
    /\ roastMutation' = [status |-> "pending", text |-> resumeText, level |-> chosenLevel]
    /\ UNCHANGED <<resumeText, shownAnalysis, shownRoast, shownImprovements, chosenLevel,
                   roastConsent, analyzeMutation, improveMutation,
                   callVars, scoreVars, roastVars, improveVars, limitVars, segmentVars, appendVars,
                 bulletVars, cleanVars, fillVars, routeVars>>

\* roastMutation.onSuccess; /api/roast answers 400 to a text that is too short
RoastSucceeds ==
    /\ roastMutation.status = "pending"
    /\ ~tooShort(roastMutation.text)
    /\ roastMutation' = [status |-> "success"]
    /\ shownRoast' = [fn |-> "roast", text |-> roastMutation.text, level |-> roastMutation.level]
    /\ UNCHANGED <<resumeText, shownAnalysis, shownImprovements, chosenLevel, roastConsent,
                   analyzeMutation, improveMutation,
                   callVars, scoreVars, roastVars, improveVars, limitVars, segmentVars, appendVars,
                 bulletVars, cleanVars, fillVars, routeVars>>

\* roastMutation.onError: a toast
RoastFails ==
    /\ roastMutation.status = "pending"
    /\ roastMutation' = [status |-> "error"]
    /\ UNCHANGED <<resumeText, shownAnalysis, shownRoast, shownImprovements, chosenLevel,
                   roastConsent, analyzeMutation, improveMutation,
                   callVars, scoreVars, roastVars, improveVars, limitVars, segmentVars, appendVars,
                 bulletVars, cleanVars, fillVars, routeVars>>

\* the Get Improvements button; it is rendered with the analysis
ClickImprove ==
    /\ shownAnalysis # Null
    /\ improveMutation.status # "pending"
    /\ improveMutation' = [status |-> "pending", text |-> resumeText]
    /\ UNCHANGED <<resumeText, shownAnalysis, shownRoast, shownImprovements, chosenLevel,
                   roastConsent, analyzeMutation, roastMutation,
                   callVars, scoreVars, roastVars, improveVars, limitVars, segmentVars, appendVars,
                 bulletVars, cleanVars, fillVars, routeVars>>

\* improveMutation.onSuccess; /api/improve answers 400 to a text that is too short
ImproveSucceeds ==
    /\ improveMutation.status = "pending"
    /\ ~tooShort(improveMutation.text)
    /\ improveMutation' = [status |-> "success"]
    /\ shownImprovements' = [fn |-> "improve", text |-> improveMutation.text]
    /\ UNCHANGED <<resumeText, shownAnalysis, shownRoast, chosenLevel, roastConsent,
                   analyzeMutation, roastMutation,
                   callVars, scoreVars, roastVars, improveVars, limitVars, segmentVars, appendVars,
                 bulletVars, cleanVars, fillVars, routeVars>>

\* improveMutation.onError: a toast
ImproveFails ==
    /\ improveMutation.status = "pending"
    /\ improveMutation' = [status |-> "error"]
    /\ UNCHANGED <<resumeText, shownAnalysis, shownRoast, shownImprovements, chosenLevel,
                   roastConsent, analyzeMutation, roastMutation,
                   callVars, scoreVars, roastVars, improveVars, limitVars, segmentVars, appendVars,
                 bulletVars, cleanVars, fillVars, routeVars>>

InitPage ==
    /\ resumeText = "" /\ shownAnalysis = Null /\ shownRoast = Null /\ shownImprovements = Null
    /\ chosenLevel = "spicy" /\ roastConsent = FALSE
    /\ analyzeMutation = IdleMutation /\ roastMutation = IdleMutation /\ improveMutation = IdleMutation
    /\ IdleCalls /\ IdleScore /\ IdleRoast /\ IdleImprove /\ IdleLimit /\ IdleSegment /\ IdleAppend
    /\ IdleBullets /\ IdleClean /\ IdleFill /\ IdleRoutes

NextPage ==
    \/ \E text \in PageTexts : SetResumeText(text)
    \/ ClickAnalyze
    \/ AnalyzeSucceeds
    \/ AnalyzeFails
    \/ \E roastLevel \in RoastLevels : SetRoastLevel(roastLevel)
    \/ \E checked \in BOOLEAN : SetRoastConsent(checked)
    \/ ClickRoast
    \/ RoastSucceeds
    \/ RoastFails
    \/ ClickImprove
    \/ ImproveSucceeds
    \/ ImproveFails

SpecPage == InitPage /\ [][NextPage]_vars

\* C15: a roast request is sent only while the consent box is checked, and every
\* successful analysis unchecks the consent box and clears the roast and the
\* improvement plan shown before.
C15_ConsentBeforeRoast ==
    [][ /\ (roastMutation'.status = "pending" /\ roastMutation.status # "pending") => roastConsent
        /\ (analyzeMutation.status = "pending" /\ analyzeMutation'.status = "success") =>
              (~roastConsent' /\ shownRoast' = Null /\ shownImprovements' = Null) ]_vars

\* a second analysis has just succeeded on a page that showed a roast, requested
\* with consent, and a plan: the box is unchecked and both are gone, and no roast
\* can be requested
C15_Witness ==
    /\ analyzeMutation.status = "success" /\ roastMutation.status = "success"
    /\ improveMutation.status = "success"
    /\ shownAnalysis # Null /\ shownRoast = Null /\ shownImprovements = Null
    /\ ~roastConsent /\ ~ENABLED ClickRoast

(***************************************************************************)
(* analyzeResume on a resume and on the same resume with one more bullet   *)
(***************************************************************************)
\* the lines of a resume
MaxDocLines == 3

\* the lines the resumes are made of: a heading, a bullet with three impact verbs, a
\* line with four, a vague bullet, and a bullet with a metric
DocLines ==
    { "Experience",
      "- Built, launched and automated tools",
      "Reduced, improved, boosted and shipped things",
      "- Responsible for various tasks",
      "- Cut costs by 10%" }

RECURSIVE SeqsUpTo(_, _)
\* the sequences of at most n elements of the set
SeqsUpTo(set, n) ==
    IF n = 0 THEN {<<>>}
    ELSE SeqsUpTo(set, n - 1) \cup {Append(q, x) : q \in {r \in SeqsUpTo(set, n - 1) : Len(r) = n - 1}, x \in set}

\* the bullet that is appended
MetricBullet == "- Increased revenue by 20%"

\* the analysis of the resume
AnalyzeDoc ==
    /\ docFeat = NoCall
    /\ docFeat' = extractFeatures(joinLines(doc))
    /\ UNCHANGED <<doc, shortFeat, callVars, scoreVars, roastVars, improveVars,
                   limitVars, pageVars, segmentVars,
                 bulletVars, cleanVars, fillVars, routeVars>>

\* the analysis of the resume with the bullet appended
AppendBullet ==
    /\ docFeat # NoCall
    /\ shortFeat = NoCall
    /\ doc' = Append(doc, MetricBullet)
    /\ shortFeat' = docFeat
    /\ docFeat' = extractFeatures(joinLines(doc'))
    /\ UNCHANGED <<callVars, scoreVars, roastVars, improveVars, limitVars, pageVars, segmentVars,
                 bulletVars, cleanVars, fillVars, routeVars>>

InitAppend ==
    /\ doc \in SeqsUpTo(DocLines, MaxDocLines)
    /\ docFeat = NoCall
    /\ shortFeat = NoCall
    /\ IdleCalls /\ IdleScore /\ IdleRoast /\ IdleImprove /\ IdleLimit /\ IdlePage /\ IdleSegment
    /\ IdleBullets /\ IdleClean /\ IdleFill /\ IdleRoutes

NextAppend == AnalyzeDoc \/ AppendBullet

SpecAppend == InitAppend /\ [][NextAppend]_vars

\* C16: for every resume with metric count 0, appending one well-formed bullet line
\* containing "increased revenue by 20%" does not decrease the Proof of Impact score
\* (before the display inversion).
C16_MetricBulletNotLower ==
    (shortFeat # NoCall /\ shortFeat.metricCount = 0) =>
        proofNum(docFeat) * proofDen(shortFeat) >= proofNum(shortFeat) * proofDen(docFeat)

\* a resume with bullets, three impact verbs and no metric: the bullet is counted as a
\* bullet, as two metrics and as a fourth impact verb, and Proof of Impact rises
C16_Witness ==
    /\ shortFeat # NoCall /\ shortFeat.metricCount = 0 /\ shortFeat.bulletCount > 0
    /\ shortFeat.impactVerbs = 3
    /\ docFeat.metricCount = 2 /\ docFeat.bulletCount = shortFeat.bulletCount + 1
    /\ docFeat.impactVerbs = 4
    /\ proofNum(docFeat) * proofDen(shortFeat) > proofNum(shortFeat) * proofDen(docFeat)

\* C17: whenever roastLines has at least 3 lines, bestLine is the line at an index
\* strictly between the first and the last; with fewer than 3 lines, bestLine is the
\* first line.
C17_BestLinePosition ==
    roast # NoCall =>
        IF Len(roast.roastLines) >= 3
        THEN \E i \in 2..(Len(roast.roastLines) - 1) : roast.bestLine = roast.roastLines[i]
        ELSE roast.bestLine = roast.roastLines[1]

(***************************************************************************)
(* extractSections on texts of a few lines                                 *)
(***************************************************************************)
\* the lines of a text
MaxSegLines == 4

\* the lines the texts are made of: two headings of the label experience, the second
\* of them matching the pattern of summary as well, a heading of another label, a line
\* of content, a line of content that holds a heading word and is 60 characters or
\* longer, and the empty line
SegLines ==
    { "Experience",
      "Career Objective",
      "Education",
      "Built APIs",
      "Gained experience building payment systems for sixty thousand users",
      "" }

\* extractSections(text)
Segment ==
    /\ segmented = NoCall
    /\ segmented' = extractSections(joinLines(segInput))
    /\ UNCHANGED <<segInput, callVars, scoreVars, roastVars, improveVars,
                   limitVars, pageVars, appendVars,
                 bulletVars, cleanVars, fillVars, routeVars>>

InitSegment ==
    /\ segInput \in {ls \in SeqsUpTo(SegLines, MaxSegLines) : Len(ls) >= 1}
    /\ segmented = NoCall
    /\ IdleCalls /\ IdleScore /\ IdleRoast /\ IdleImprove /\ IdleLimit /\ IdlePage /\ IdleAppend
    /\ IdleBullets /\ IdleClean /\ IdleFill /\ IdleRoutes

NextSegment == Segment

SpecSegment == InitSegment /\ [][NextSegment]_vars

\* the labels of sections
Labels == {"preamble"} \cup {sectionHeaders[k].name : k \in 1..Len(sectionHeaders)}

\* a line that matches a heading pattern and is shorter than 60 characters when trimmed
recognized(line) ==
    /\ \E k \in 1..Len(sectionHeaders) : TestAnyWord(toLowerCase(trim(line)), sectionHeaders[k].alts)
    /\ Len(trim(line)) < 60

\* for each line, the label it names as a heading ("" when it is no heading)
headings(lines) == [k \in 1..Len(lines) |-> headerOf(trim(lines[k]))]

RECURSIVE labelAt(_, _)
\* the label of the last heading at or before line k, "preamble" when there is none
labelAt(heads, k) ==
    IF k = 0 THEN "preamble" ELSE IF heads[k] # "" THEN heads[k] ELSE labelAt(heads, k - 1)

RECURSIVE linesUnder(_, _, _, _)
\* the lines from line k on that are no headings and stand under a heading of the label
linesUnder(lines, heads, label, k) ==
    IF k > Len(lines) THEN <<>>
    ELSE (IF heads[k] = "" /\ labelAt(heads, k) = label THEN <<lines[k]>> ELSE <<>>)
         \o linesUnder(lines, heads, label, k + 1)

RECURSIVE linesUntilHeading(_, _, _)
\* the lines from line k on up to the next heading
linesUntilHeading(lines, heads, k) ==
    IF k > Len(lines) \/ heads[k] # "" THEN <<>>
    ELSE <<lines[k]>> \o linesUntilHeading(lines, heads, k + 1)

\* the lines that are not blank, trimmed
contentLines(lines) == SelectSeq([k \in 1..Len(lines) |-> trim(lines[k])], LAMBDA l : l # "")

\* the content lines of the text returned for the label (none without an entry)
sectionLines(label) ==
    IF label \in DOMAIN segmented THEN contentLines(splitLines(segmented[label])) ELSE <<>>

\* the text is what cleanText returns for it
normalized(lines) == cleanText(joinLines(lines)) = joinLines(lines)

\* two heading lines name the same label
repeatedLabel(heads) ==
    \E j \in 1..Len(heads), k \in 1..Len(heads) : j < k /\ heads[j] # "" /\ heads[j] = heads[k]

\* each label's section holds the lines under the headings of the label, and no other
partitioned(lines, heads) ==
    \A label \in Labels : sectionLines(label) = contentLines(linesUnder(lines, heads, label, 1))

\* every line that is no heading and not blank is in the text of a section, no section
\* holds a line that does not stand under a heading of its label, and the preamble
\* holds the lines before the first heading
noLineLost(lines, heads) ==
    /\ \A k \in 1..Len(lines) :
          (heads[k] = "" /\ trim(lines[k]) # "") =>
              \E label \in Labels : trim(lines[k]) \in Range(sectionLines(label))
    /\ \A label \in Labels :
          Range(sectionLines(label)) \subseteq Range(contentLines(linesUnder(lines, heads, label, 1)))
    /\ sectionLines("preamble") = contentLines(linesUnder(lines, heads, "preamble", 1))

\* C18 as stated: for every normalized text, each non-heading line appears in the
\* text of exactly one section of the mapping extractSections returns, and the
\* preamble section holds exactly the lines before the first recognized heading.
C18_SectionsPartition ==
    (segmented # NoCall /\ normalized(segInput)) => noLineLost(segInput, headings(segInput))

\* C18: for every normalized text in which no two heading lines name the same label,
\* each non-heading line appears in the text of exactly one section (the one of the
\* heading it stands under), and the preamble section holds exactly the lines before
\* the first recognized heading.
C18_PartitionUnlessRepeated ==
    (segmented # NoCall /\ normalized(segInput) /\ ~repeatedLabel(headings(segInput))) =>
        partitioned(segInput, headings(segInput))

\* a text of a line, a heading, a long line with a heading word in it and one more
\* line: a preamble and one section
C18_Witness ==
    /\ segmented # NoCall /\ normalized(segInput) /\ ~repeatedLabel(headings(segInput))
    /\ Len(segInput) = 4
    /\ DOMAIN segmented = {"preamble", "experience"}
    /\ Len(sectionLines("experience")) = 2 /\ Len(sectionLines("preamble")) = 1
    /\ Len(segmented["experience"]) > 60

\* the content under the last heading of the label
underLastHeading(lines, heads, label) ==
    trim(joinLines(linesUntilHeading(lines, heads,
        1 + CHOOSE k \in 1..Len(lines) : heads[k] = label /\ \A j \in (k + 1)..Len(lines) : heads[j] # label)))

\* C19: when several heading lines of a text name the same label, the text
\* extractSections returns for the label is the content under the last of those
\* headings, never the content of an earlier one and never a concatenation.
C19_LastWins ==
    segmented # NoCall =>
        \A label \in Labels :
            Cardinality({k \in 1..Len(segInput) : headings(segInput)[k] = label}) >= 2 =>
                \/ label \in DOMAIN segmented
                   /\ segmented[label] = underLastHeading(segInput, headings(segInput), label)
                \/ label \notin DOMAIN segmented
                   /\ underLastHeading(segInput, headings(segInput), label) = ""

\* C20 as stated: for every body text, extractSections applied to the line
\* "Experience" followed by the body returns a mapping with an "experience" entry
\* whose text is the trimmed body.
C20_SectionRecovery ==
    (segmented # NoCall /\ Len(segInput) >= 2 /\ segInput[1] = "Experience") =>
        /\ "experience" \in DOMAIN segmented
        /\ segmented["experience"] = trim(joinLines(Tail(segInput)))

\* C20: for every body text none of whose lines is recognized as a heading,
\* extractSections applied to the line "Experience" followed by the body returns a
\* mapping with an "experience" entry whose text is the trimmed body.
C20_RecoveryOfPlainBody ==
    (/\ segmented # NoCall /\ Len(segInput) >= 2 /\ segInput[1] = "Experience"
     /\ \A k \in 2..Len(segInput) : ~recognized(segInput[k])) =>
        /\ "experience" \in DOMAIN segmented
        /\ segmented["experience"] = trim(joinLines(Tail(segInput)))

\* a body of three lines, the first blank, the last the long line with a heading
\* word in it: the section text is the body without the leading blank line
C20_Witness ==
    /\ segmented # NoCall /\ Len(segInput) = 4 /\ segInput[1] = "Experience"
    /\ \A k \in 2..4 : ~recognized(segInput[k])
    /\ segInput[2] = "" /\ Len(segInput[4]) >= 60
    /\ DOMAIN segmented = {"experience"}
    /\ segmented["experience"] = joinLines(SubSeq(segInput, 3, 4))

(***************************************************************************)
(* extractBullets on texts built from lines                                *)
(***************************************************************************)
\* the number of lines of a text given to extractBullets
MaxBulletLines == 3

\* lines with each kind of marker, with content that begins with a digit, with short
\* content, with no marker, with a marker and no whitespace after it
BulletLines ==
    { "- Built APIs",
      "* 5 years of Python",
      "1. Led a team",
      "2) 3x faster builds",
      "  - Indented bullet  ",
      "- tiny",
      "Plain line",
      "-No space" }

ExtractBullets ==
    /\ bulletsOut = NoCall
    /\ bulletsOut' = [fn |-> "extractBullets", bullets |-> extractBullets(joinLines(bulletInput))]
    /\ UNCHANGED <<bulletInput, callVars, scoreVars, roastVars, improveVars,
                   limitVars, pageVars, segmentVars, appendVars,
                   cleanVars, fillVars, routeVars>>

InitBullets ==
    /\ bulletInput \in SeqsUpTo(BulletLines, MaxBulletLines)
    /\ bulletsOut = NoCall
    /\ IdleCalls /\ IdleScore /\ IdleRoast /\ IdleImprove /\ IdleLimit /\ IdlePage
    /\ IdleSegment /\ IdleAppend /\ IdleClean /\ IdleFill /\ IdleRoutes

NextBullets == ExtractBullets

SpecBullets == InitBullets /\ [][NextBullets]_vars

\* the position after the marker of a trimmed line and the whitespace that follows it
\* (0 when the line starts with no marker followed by whitespace)
markerEnd(trimmed) ==
    IF Ch(trimmed, 1) \in BulletGlyphs /\ Ch(trimmed, 2) \in SpaceChars
    THEN SkipSpaces(trimmed, 2)
    ELSE IF /\ SkipClass(trimmed, 1, DigitChars) > 1
            /\ Ch(trimmed, SkipClass(trimmed, 1, DigitChars)) \in {".", ")"}
            /\ Ch(trimmed, SkipClass(trimmed, 1, DigitChars) + 1) \in SpaceChars
         THEN SkipSpaces(trimmed, SkipClass(trimmed, 1, DigitChars) + 1)
         ELSE 0

\* the line with only its marker and the whitespace after it removed
withoutMarker(line) == From(trim(line), markerEnd(trim(line)))

\* one entry for each marked line, in order, entries of 5 or fewer characters dropped
markedLines(lines) ==
    SelectSeq(lines, LAMBDA line : markerEnd(trim(line)) > 0 /\ Len(withoutMarker(line)) > 5)

\* C21: extractBullets returns, in line order and keeping duplicates, one entry for each
\* line that after trimming starts with a bullet glyph or an "N." / "N)" marker followed
\* by whitespace; the entry is the line with only the marker and the whitespace after it
\* removed, also when the content begins with a digit; entries of 5 or fewer characters
\* are dropped
C21_BulletsAreMarkedLines ==
    bulletsOut # NoCall =>
        /\ Len(bulletsOut.bullets) = Len(markedLines(bulletInput))
        /\ \A k \in 1..Len(bulletsOut.bullets) :
               bulletsOut.bullets[k] = withoutMarker(markedLines(bulletInput)[k])

(***************************************************************************)
(* cleanText on texts built from pieces                                    *)
(***************************************************************************)
\* the number of pieces of a text given to cleanText
MaxPieces == 4

\* a letter, one and two spaces, a tab, a line end of each kind, two newlines, a lone \r
CleanPieces == {"a", " ", "  ", "\t", "\r\n", "\n\n", "\r"}

Clean ==
    /\ cleaned = NoCall
    /\ cleaned' = [fn |-> "cleanText", text |-> cleanText(ConcatRange(rawPieces, 1, Len(rawPieces)))]
    /\ UNCHANGED <<rawPieces, callVars, scoreVars, roastVars, improveVars,
                   limitVars, pageVars, segmentVars, appendVars,
                   bulletVars, fillVars, routeVars>>

InitClean ==
    /\ rawPieces \in SeqsUpTo(CleanPieces, MaxPieces)
    /\ cleaned = NoCall
    /\ IdleCalls /\ IdleScore /\ IdleRoast /\ IdleImprove /\ IdleLimit /\ IdlePage
    /\ IdleSegment /\ IdleAppend /\ IdleBullets /\ IdleFill /\ IdleRoutes

NextClean == Clean

SpecClean == InitClean /\ [][NextClean]_vars

\* every tab replaced by two spaces
tabsToTwoSpaces(s) ==
    ConcatRange([i \in 1..Len(s) |-> IF SubSeq(s, i, i) = "\t" THEN "  " ELSE SubSeq(s, i, i)],
                1, Len(s))

\* the normalization as it is stated: CRLF to LF, tabs to two spaces, runs of three or more
\* spaces to two, runs of four or more newlines to three, whitespace at both ends removed
normalizedText(text) ==
    trim(CollapseRuns(CollapseRuns(tabsToTwoSpaces(replaceCRLF(text)), " ", 3, "  "), "\n", 4, "\n\n\n"))

\* C22: cleanText returns the input with every CRLF replaced by LF, every tab replaced by
\* two spaces, every run of three or more spaces replaced by two spaces, every run of four
\* or more newlines replaced by three, and leading and trailing whitespace removed
C22_TextNormalization ==
    cleaned # NoCall => cleaned.text = normalizedText(ConcatRange(rawPieces, 1, Len(rawPieces)))

\* the lines of the templates whose category is in categories
LinesOfCategories(categories) ==
    UNION {Range(TEMPLATES[k].lines) : k \in {j \in 1..Len(TEMPLATES) : TEMPLATES[j].category \in categories}}

OverallLines == LinesOfCategories({"overall"})

FinisherLines == LinesOfCategories({"finisher"})

\* the lines of the templates that are neither overall nor finisher
TriggeredLines ==
    LinesOfCategories({TEMPLATES[k].category : k \in 1..Len(TEMPLATES)} \ {"overall", "finisher"})

\* C23: the roastLines are at most 2 lines of overall templates, then lines of templates
\* that are neither overall nor finisher, then at most 2 lines of finisher templates; no
\* finisher line stands before a line that is not one, and there are at most 14 lines.
C23_RoastShape ==
    roast # NoCall =>
        /\ Len(roast.roastLines) <= 14
        /\ Len(phases[1]) <= 2
        /\ Len(phases[1]) <= Len(phases[3]) /\ Len(phases[3]) <= Len(roast.roastLines)
        /\ Len(roast.roastLines) - Len(phases[3]) <= 2
        /\ \A k \in 1..Len(roast.roastLines) :
              IF k <= Len(phases[1])
              THEN ComesFrom(roast.roastLines[k], OverallLines)
              ELSE IF k <= Len(phases[3])
              THEN /\ ComesFrom(roast.roastLines[k], TriggeredLines)
                   /\ ~ComesFrom(roast.roastLines[k], FinisherLines)
              ELSE ComesFrom(roast.roastLines[k], FinisherLines)

\* a roast with two overall lines, lines of the per-category and of the fill phase, and
\* two finisher lines
C23_Witness ==
    /\ roast # NoCall
    /\ Len(phases[1]) = 2 /\ Len(phases[2]) > 2 /\ Len(phases[3]) > Len(phases[2])
    /\ Len(roast.roastLines) = Len(phases[3]) + 2
    /\ ComesFrom(roast.roastLines[Len(roast.roastLines)], FinisherLines)

(***************************************************************************)
(* generateRoast from its third phase on, one loop iteration at a time.    *)
(* fillLines is roastLines; fillPc is "fill" at the test of the while      *)
(* loop, "finishers" after the loop and "done" after phase 4.  The line an *)
(* iteration makes depends on ctx, seed and roastLines.length only, and    *)
(* the finisher lines on ctx and seed only: picks holds them for the call. *)
(***************************************************************************)
\* the seeded picks of a call: the number of eligible triggered templates, the line an
\* iteration of phase 3 makes when roastLines has n lines, the lines of phase 4
picksOf(c, s, levelNum) ==
    [ triggered |-> Len(triggeredTemplates(c, levelNum)),
      fill |-> [n \in 0..9 |->
                  IF Len(triggeredTemplates(c, levelNum)) = 0 THEN ""
                  ELSE fillLine(triggeredTemplates(c, levelNum), [k \in 1..n |-> ""], c, s)],
      finishers |-> finisherPhase(seededShuffle(finisherTemplates(c, levelNum), NumAdd(s, 200)),
                                  0, <<>>, c, s) ]

\* while (roastLines.length < 10 && triggeredTemplates.length > 0)
fillContinues == Len(fillLines) < 10 /\ picks.triggered > 0

\* an iteration whose line is a duplicate tests the loop again instead of leaving it
FillDuplicateRetries ==
    /\ fillPc = "fill" /\ fillContinues
    /\ picks.fill[Len(fillLines)] \in Range(fillLines)
    /\ UNCHANGED vars

\* if (!roastLines.includes(replaced)) roastLines.push(replaced)
FillAppend ==
    /\ fillPc = "fill" /\ fillContinues
    /\ picks.fill[Len(fillLines)] \notin Range(fillLines)
    /\ fillLines' = Append(fillLines, picks.fill[Len(fillLines)])
    /\ UNCHANGED <<fillPc, picks, roastVars, callVars, scoreVars, improveVars,
                   limitVars, pageVars, segmentVars, appendVars,
                   bulletVars, cleanVars, routeVars>>

\* else break
FillDuplicate ==
    /\ fillPc = "fill" /\ fillContinues
    /\ picks.fill[Len(fillLines)] \in Range(fillLines)
    /\ fillPc' = "finishers"
    /\ UNCHANGED <<fillLines, picks, roastVars, callVars, scoreVars, improveVars,
                   limitVars, pageVars, segmentVars, appendVars,
                   bulletVars, cleanVars, routeVars>>

\* the test of the loop fails
FillExit ==
    /\ fillPc = "fill" /\ ~fillContinues
    /\ fillPc' = "finishers"
    /\ UNCHANGED <<fillLines, picks, roastVars, callVars, scoreVars, improveVars,
                   limitVars, pageVars, segmentVars, appendVars,
                   bulletVars, cleanVars, routeVars>>

\* phase 4: the loop pushes its next line while roastLines has fewer than 14 lines
Finishers ==
    /\ fillPc = "finishers"
    /\ fillLines' = fillLines \o SubSeq(picks.finishers, 1,
                                        Min(Len(picks.finishers), Max(0, 14 - Len(fillLines))))
    /\ fillPc' = "done"
    /\ UNCHANGED <<picks, roastVars, callVars, scoreVars, improveVars,
                   limitVars, pageVars, segmentVars, appendVars,
                   bulletVars, cleanVars, routeVars>>

\* the contexts of the calls that are followed step by step
FillContexts ==
    {c \in Contexts : c.wordCount \in {30, 1001} /\ c.bulletCount = 4 /\ Len(c.techStack) = 2}

\* generateRoast has run its first two phases
InitFill ==
    /\ ctx \in FillContexts
    /\ seed \in Seeds
    /\ level \in RoastLevels
    /\ phases = <<>>
    /\ roast = NoCall
    /\ fillLines = phaseLines(ctx, seed, LEVEL_ORDER[level])[2]
    /\ fillPc = "fill"
    /\ picks = picksOf(ctx, seed, LEVEL_ORDER[level])
    /\ IdleCalls /\ IdleScore /\ IdleImprove /\ IdleLimit /\ IdlePage
    /\ IdleSegment /\ IdleAppend /\ IdleBullets /\ IdleClean /\ IdleRoutes

NextFill == FillAppend \/ FillDuplicate \/ FillExit \/ Finishers

\* a call that has started runs on: the function is synchronous and nothing in it waits
SpecFill == InitFill /\ [][NextFill]_vars /\ WF_vars(NextFill)

\* C24: the loop of phase 3 always ends.  It is left for good, and phase 4 follows; an
\* iteration that stays in the loop happens only below 10 lines with a triggered
\* template eligible and appends one line that was not in roastLines; phase 4 runs after
\* the loop however it ended, and the lines are then those generateRoast returns.
C24_FillTerminates ==
    /\ <>[](fillPc # "fill")
    /\ <>(fillPc = "done")
    /\ [][(fillPc = "fill" /\ fillPc' = "fill")
            => /\ Len(fillLines) < 10
               /\ Len(triggeredTemplates(ctx, LEVEL_ORDER[level])) > 0
               /\ Len(fillLines') = Len(fillLines) + 1
               /\ SubSeq(fillLines', 1, Len(fillLines)) = fillLines
               /\ fillLines'[Len(fillLines')] \notin Range(fillLines)]_vars
    /\ [][(fillPc = "fill" /\ fillPc' # "fill") => (fillPc' = "finishers" /\ fillLines' = fillLines)]_vars
    /\ [][fillPc' = "done" => fillLines' = phaseLines(ctx, seed, LEVEL_ORDER[level])[4]]_vars

\* a call whose loop ended at a duplicate, below 10 lines, and whose finisher phase then
\* added a line
C24_Witness ==
    /\ fillPc = "done" /\ Len(fillLines) < 10
    /\ picks.triggered > 0
    /\ ComesFrom(fillLines[Len(fillLines)], FinisherLines)

\* C25: the final score analyzeResume reports lies in 2..9: the weighted sum W of the six
\* category scores is above 10 and at most 90 (compared as W * 100 * proofDen), so 1 and 10
\* are never reported.
C25_ReachableScoreRange ==
    report # NoCall =>
        /\ report.score \in 2..9
        /\ weightedNum(feat) > 10 * 100 * proofDen(feat)
        /\ weightedNum(feat) <= 90 * 100 * proofDen(feat)

\* a report with the highest score there is: ownership, no metric, no section, nothing
\* to show, and the weighted sum still at 17.75
C25_Witness ==
    /\ report # NoCall /\ report.score = 9
    /\ weightedNum(feat) = 1775 * proofDen(feat)

\* C26: the roastLines generateRoast returns never hold the same string twice, whichever
\* of the four phases the lines come from.
C26_NoRepeatedLine ==
    roast # NoCall =>
        \A i \in 1..Len(roast.roastLines) : \A j \in 1..Len(roast.roastLines) :
            roast.roastLines[i] = roast.roastLines[j] => i = j

\* a roast with lines of all four phases whose fill phase made a line that was there
\* already: it stopped below 10 lines with triggered templates eligible
C26_Witness ==
    /\ roast # NoCall
    /\ Len(phases[1]) > 0 /\ Len(phases[2]) > Len(phases[1])
    /\ Len(phases[3]) > Len(phases[2]) /\ Len(phases[4]) > Len(phases[3])
    /\ Len(phases[3]) < 10
    /\ fillLine(triggeredTemplates(ctx, LEVEL_ORDER[level]), phases[3], ctx, seed) \in Range(phases[3])

\* C27: a roast or an improvement plan that is displayed was generated from the same
\* resume text as the analysis displayed with it, under any order of edits, clicks and
\* responses.
C27_ResultsBelongTogether ==
    /\ shownRoast # Null => (shownAnalysis # Null /\ shownRoast.text = shownAnalysis.text)
    /\ shownImprovements # Null => (shownAnalysis # Null /\ shownImprovements.text = shownAnalysis.text)

(***************************************************************************)
(* The endpoints: app.post(path, rateLimit, handler).  served records what *)
(* was done with the last request: the status of the response, whether the *)
(* handler validated the body, and the core function it called (its value  *)
(* is that of the operator of the same name and is not kept here).         *)
(***************************************************************************)
RoutePaths == {"/api/analyze", "/api/roast", "/api/improve"}

\* request bodies: text "" stands for a body without text; sourceType is read by
\* /api/analyze and roastLevel by /api/roast
Bodies ==
    { [text |-> t, sourceType |-> s, roastLevel |-> l] :
        t \in {"", "Jane Doe, engineer", FourLineText},
        s \in {"paste", "docx"},
        l \in {"spicy", "nuclear"} }

\* schema.safeParse(req.body).success for the schema of the endpoint
parsedSuccess(path, body) ==
    IF path = "/api/analyze"
    THEN body.sourceType \in {"paste", "pdf"} /\ Len(body.text) <= 20000
    ELSE IF path = "/api/roast"
    THEN Len(body.text) >= 1 /\ Len(body.text) <= 20000 /\ body.roastLevel \in RoastLevels
    ELSE Len(body.text) >= 1 /\ Len(body.text) <= 20000

coreOf(path) ==
    IF path = "/api/analyze" THEN "analyzeResume"
    ELSE IF path = "/api/roast" THEN "generateRoast"
    ELSE "generateImprovements"

\* the handler of an endpoint: 400 for a body that does not parse or a text that is too
\* short, the value of the core function otherwise
handler(key, path, body) ==
    IF ~parsedSuccess(path, body) \/ tooShort(body.text)
    THEN [key |-> key, status |-> 400, validated |-> TRUE, core |-> "none", text |-> body.text]
    ELSE [key |-> key, status |-> 200, validated |-> TRUE, core |-> coreOf(path), text |-> body.text]

\* the response of rateLimit when it does not call next()
rejected(key, body) ==
    [key |-> key, status |-> 429, validated |-> FALSE, core |-> "none", text |-> body.text]

\* an endpoint whose handler validates before the limiter counts: a request answered
\* with 400 leaves the store alone
PostValidatingFirst(ip, path, body) ==
    /\ arrivals < MaxArrivals
    /\ arrivals' = arrivals + 1
    /\ IF handler(keyOf(ip, path), path, body).status = 400
       THEN /\ served' = handler(keyOf(ip, path), path, body)
            /\ UNCHANGED <<store, response>>
       ELSE /\ store' = Put(store, keyOf(ip, path), counted(store, keyOf(ip, path), now))
            /\ response' = answer(keyOf(ip, path), store'[keyOf(ip, path)], now)
            /\ served' = IF response'.next THEN handler(keyOf(ip, path), path, body)
                         ELSE rejected(keyOf(ip, path), body)
    /\ UNCHANGED <<now, window, admittedAt, callVars, scoreVars, roastVars, improveVars,
                   pageVars, segmentVars, appendVars, bulletVars, cleanVars, fillVars>>

\* a request to an endpoint: rateLimit, and the handler if rateLimit calls next()
Post(ip, path, body) ==
    /\ arrivals < MaxArrivals
    /\ arrivals' = arrivals + 1
    /\ store' = Put(store, keyOf(ip, path), counted(store, keyOf(ip, path), now))
    /\ response' = answer(keyOf(ip, path), store'[keyOf(ip, path)], now)
    /\ served' = IF response'.next THEN handler(keyOf(ip, path), path, body)
                 ELSE rejected(keyOf(ip, path), body)
    /\ UNCHANGED <<now, window, admittedAt, callVars, scoreVars, roastVars, improveVars,
                   pageVars, segmentVars, appendVars, bulletVars, cleanVars, fillVars>>

InitRoutes ==
    /\ store = <<>> /\ now = 0 /\ response = NoCall /\ window = <<>> /\ admittedAt = <<>>
    /\ arrivals = 0
    /\ served = NoCall
    /\ IdleCalls /\ IdleScore /\ IdleRoast /\ IdleImprove /\ IdlePage /\ IdleSegment /\ IdleAppend
    /\ IdleBullets /\ IdleClean /\ IdleFill

NextRoutes == \E ip \in Ips, path \in RoutePaths, body \in Bodies : Post(ip, path, body)

SpecRoutes == InitRoutes /\ [][NextRoutes]_vars

\* the count stored for a key, 0 when there is no entry
countOf(entries, key) == IF key \in DOMAIN entries THEN entries[key].count ELSE 0

\* C28: on the analyze, roast and improve endpoints the quota is charged before the body
\* is validated: every request, also one answered with 400 for its shape or for a text
\* shorter than 50 characters after trimming, adds one to the count of its key, and a
\* request answered with 429 reaches neither the validation nor a core function.
C28_QuotaBeforeValidation ==
    [][ arrivals' = arrivals + 1 =>
          /\ countOf(store', served'.key) = countOf(store, served'.key) + 1
          /\ served'.status = 429 <=> countOf(store', served'.key) > MAX_REQUESTS
          /\ served'.status = 429 => (~served'.validated /\ served'.core = "none")
          /\ served'.status = 400 => (served'.validated /\ served'.core = "none")
          /\ served'.status = 200 =>
                (served'.validated /\ served'.core # "none" /\ Len(trim(served'.text)) >= 50) ]_vars

\* a request answered with 400 for its short text has taken the last unit of the quota
\* of its key: the count stands at the maximum
C28_Witness ==
    /\ served # NoCall /\ served.status = 400 /\ served.validated
    /\ served.text = "Jane Doe, engineer"
    /\ countOf(store, served.key) = MAX_REQUESTS

\* C29: a request changes the entry of no other key, and a request that arrives while the
\* window of its key is unexpired (now <= resetAt) adds one to the count of that key and
\* leaves its reset time as it is, whether it is admitted or rejected.
C29_RateLimitFrame ==
    [][ arrivals' = arrivals + 1 =>
          /\ DOMAIN store' = DOMAIN store \cup {response'.key}
          /\ \A other \in DOMAIN store \ {response'.key} : store'[other] = store[other]
          /\ (response'.key \in DOMAIN store /\ now <= store[response'.key].resetAt) =>
                /\ store'[response'.key].count = store[response'.key].count + 1
                /\ store'[response'.key].resetAt = store[response'.key].resetAt ]_vars

\* a request rejected at the very end of its key's window, the reset time still that of
\* the window, with an entry of another key in the store
C29_Witness ==
    /\ response # NoCall /\ ~response.next
    /\ now = store[response.key].resetAt /\ now = WINDOW_MS
    /\ store[response.key].count = MAX_REQUESTS + 1
    /\ \E other \in DOMAIN store : other # response.key /\ store[other].count >= 1

\* the labels in their fixed order
LabelOrder == <<"experience", "projects", "skills", "education", "summary", "certifications">>

\* the labels whose heading pattern the line matches
matchingLabels(line) ==
    {sectionHeaders[k].name : k \in {j \in 1..Len(sectionHeaders) :
                                        TestAnyWord(toLowerCase(trim(line)), sectionHeaders[j].alts)}}

\* the first label, in the fixed order, whose pattern the line matches
firstLabel(line) ==
    LabelOrder[CHOOSE k \in 1..Len(LabelOrder) :
                  /\ LabelOrder[k] \in matchingLabels(line)
                  /\ \A j \in 1..(k - 1) : LabelOrder[j] \notin matchingLabels(line)]

\* for each line, the first label it matches when it is a heading, "" otherwise
firstLabels(lines) ==
    [k \in 1..Len(lines) |-> IF recognized(lines[k]) THEN firstLabel(lines[k]) ELSE ""]

\* C30: a line shorter than 60 characters that matches the heading patterns of more than
\* one label is given the first matching label in the order experience, projects,
\* skills, education, summary, certifications: the lines after it, up to the next
\* heading, are the text of that label (unless a later heading names the label again),
\* a label it also matches gets no section from it, and the heading line is in the text
\* of no section.
C30_HeadingLabelPriority ==
    segmented # NoCall =>
        \A k \in 1..Len(segInput) :
            (recognized(segInput[k]) /\ Cardinality(matchingLabels(segInput[k])) > 1) =>
                /\ (/\ Len(linesUntilHeading(segInput, firstLabels(segInput), k + 1)) > 0
                    /\ \A j \in (k + 1)..Len(segInput) :
                          firstLabels(segInput)[j] # firstLabel(segInput[k]))
                   => /\ firstLabel(segInput[k]) \in DOMAIN segmented
                      /\ segmented[firstLabel(segInput[k])]
                            = trim(joinLines(linesUntilHeading(segInput, firstLabels(segInput), k + 1)))
                /\ \A other \in matchingLabels(segInput[k]) \ {firstLabel(segInput[k])} :
                      (\A j \in 1..Len(segInput) : firstLabels(segInput)[j] # other)
                          => other \notin DOMAIN segmented
                /\ \A label \in DOMAIN segmented :
                      trim(segInput[k]) \notin Range(sectionLines(label))

\* the line Career Objective, which matches experience and summary, with a line of
\* content under it: an experience section and no summary section
C30_Witness ==
    /\ segmented # NoCall
    /\ segInput = <<"Built APIs", "Career Objective", "Built APIs", "">>
    /\ matchingLabels("Career Objective") = {"experience", "summary"}
    /\ DOMAIN segmented = {"preamble", "experience"}
    /\ segmented["experience"] = "Built APIs"

====
